---- MODULE Spec2Model ----
(***************************************************************************)
(* dualsensectl: the output-report codec (builder, transmitter, CRC32      *)
(* signing) and the command encoders of main.c, as a state machine.        *)
(*                                                                         *)
(* Three specifications share the definitions below:                       *)
(*   SpecCodec  the builder and the transmitter applied repeatedly to one  *)
(*              session (dualsense_init, dualsense_init_output_report,     *)
(*              a field store, dualsense_send_output_report);              *)
(*   Spec       one run of main(): argv is drawn in Init, dualsense_init   *)
(*              opens the session, one command runs, main returns;         *)
(*   SpecMonitor  monitor mode: the option loop of main, command_monitor   *)
(*              and the processes of run_sh_command.                       *)
(*                                                                         *)
(* Bytes are integers 0..255, buffers are functions from byte offsets      *)
(* (0-based, as in C) to bytes, a uint32_t is a tuple of its four bytes,   *)
(* least significant first (the layout of a little-endian host, which is   *)
(* what the packed struct store of the crc32 member produces there).       *)
(***************************************************************************)
EXTENDS Integers, Sequences, FiniteSets, TLC

VARIABLES pc, argv, ds, rp, wire, nwrites, nbuilt, status, stderr,
          stdout, inrep, nreads, nfeatures, nclosed,
          mpc, sh_command_wait, sh_command_add, sh_command_remove,
          child, commands, nevents, nforked, nreaped

\* what the process printed, what it read from the device (res and the
\* buffer), and its calls of hid_read_timeout, hid_get_feature_report and
\* hid_close on the session's handle
ioVars == <<stdout, inrep, nreads, nfeatures, nclosed>>

\* the state of monitor mode
monVars == <<mpc, sh_command_wait, sh_command_add, sh_command_remove,
             child, commands, nevents, nforked, nreaped>>

vars == <<pc, argv, ds, rp, wire, nwrites, nbuilt, status, stderr,
          stdout, inrep, nreads, nfeatures, nclosed,
          mpc, sh_command_wait, sh_command_add, sh_command_remove,
          child, commands, nevents, nforked, nreaped>>

(***************************************************************************)
(* Bounds of the model.                                                    *)
(***************************************************************************)
\* frames built on one session under SpecCodec (more than 16: the counter wraps)
MaxFrames == 17

(***************************************************************************)
(* Bit operations on bytes and on 32-bit words.                            *)
(***************************************************************************)
BIT(n) == 2 ^ n

BitAt(x, i) == (x \div (2 ^ i)) % 2

u8(x) == x % 256

\* exclusive or of two 4-bit values, tabulated
Xor4 ==
    [a \in 0..15 |-> [b \in 0..15 |->
        ((BitAt(a, 0) + BitAt(b, 0)) % 2)
        + 2 * ((BitAt(a, 1) + BitAt(b, 1)) % 2)
        + 4 * ((BitAt(a, 2) + BitAt(b, 2)) % 2)
        + 8 * ((BitAt(a, 3) + BitAt(b, 3)) % 2)]]

Xor8(a, b) == Xor4[a % 16][b % 16] + 16 * Xor4[a \div 16][b \div 16]

And8(a, b) ==
    LET X(i) == (BitAt(a, i) * BitAt(b, i)) * (2 ^ i)
    IN  X(0) + X(1) + X(2) + X(3) + X(4) + X(5) + X(6) + X(7)

Or8(a, b) == a + b - And8(a, b)

Not8(a) == 255 - a

Xor32(u, v) == <<Xor8(u[1], v[1]), Xor8(u[2], v[2]), Xor8(u[3], v[3]), Xor8(u[4], v[4])>>

Not32(u) == <<Not8(u[1]), Not8(u[2]), Not8(u[3]), Not8(u[4])>>

Shr1(u) ==
    << (u[1] \div 2) + 128 * (u[2] % 2),
       (u[2] \div 2) + 128 * (u[3] % 2),
       (u[3] \div 2) + 128 * (u[4] % 2),
       u[4] \div 2 >>

(***************************************************************************)
(* crc32.h: reflected CRC32, polynomial 0xEDB88320, table driven, seeded   *)
(* by the caller, no inversion of its own.                                 *)
(***************************************************************************)
CRCPOLY_LE == <<32, 131, 184, 237>>     \* 0xEDB88320, least significant byte first

Crc32Shift(u) == IF u[1] % 2 = 1 THEN Xor32(Shr1(u), CRCPOLY_LE) ELSE Shr1(u)

crc32_table ==
    [n \in 0..255 |->
        Crc32Shift(Crc32Shift(Crc32Shift(Crc32Shift(
        Crc32Shift(Crc32Shift(Crc32Shift(Crc32Shift(<<n, 0, 0, 0>>))))))))]

\* t ^ (crc >> 8)
Crc32Fold(t, crc) == <<Xor8(t[1], crc[2]), Xor8(t[2], crc[3]), Xor8(t[3], crc[4]), t[4]>>

\* crc = crc32_table[(crc ^ b) & 0xff] ^ (crc >> 8)
Crc32Byte(crc, b) == Crc32Fold(crc32_table[Xor8(crc[1], b)], crc)

\* the bytes p[lo .. hi-1] folded in order, by halves (the order of the bytes
\* is that of the loop of crc32_le); c is the accumulator after the first half
RECURSIVE Crc32From(_, _, _, _)
Crc32From(crc, p, lo, hi) ==
    IF hi <= lo THEN crc
    ELSE IF hi = lo + 1 THEN Crc32Byte(crc, p[lo])
    ELSE CHOOSE r \in { Crc32From(c, p, (lo + hi) \div 2, hi) :
                         c \in {Crc32From(crc, p, lo, (lo + hi) \div 2)} } : TRUE

\* crc32_le(crc, p, len): fold the bytes p[0..len-1] into the accumulator crc
crc32_le(crc, p, len) == Crc32From(crc, p, 0, len)

(***************************************************************************)
(* Report identifiers, sizes and flags (main.c, #define block).            *)
(***************************************************************************)
PS_OUTPUT_CRC32_SEED == 162           \* 0xA2
DS_OUTPUT_REPORT_USB == 2
DS_OUTPUT_REPORT_USB_SIZE == 63
DS_OUTPUT_REPORT_BT == 49             \* 0x31
DS_OUTPUT_REPORT_BT_SIZE == 78
DS_OUTPUT_TAG == 16                   \* 0x10

DS_OUTPUT_VALID_FLAG0_RIGHT_TRIGGER_MOTOR_ENABLE == BIT(2)
DS_OUTPUT_VALID_FLAG0_LEFT_TRIGGER_MOTOR_ENABLE == BIT(3)
DS_OUTPUT_VALID_FLAG0_HEADPHONE_VOLUME_ENABLE == BIT(4)
DS_OUTPUT_VALID_FLAG0_SPEAKER_VOLUME_ENABLE == BIT(5)
DS_OUTPUT_VALID_FLAG0_AUDIO_CONTROL_ENABLE == BIT(7)
DS_OUTPUT_VALID_FLAG1_MIC_MUTE_LED_CONTROL_ENABLE == BIT(0)
DS_OUTPUT_VALID_FLAG1_POWER_SAVE_CONTROL_ENABLE == BIT(1)
DS_OUTPUT_VALID_FLAG1_LIGHTBAR_CONTROL_ENABLE == BIT(2)
DS_OUTPUT_VALID_FLAG1_PLAYER_INDICATOR_CONTROL_ENABLE == BIT(4)
DS_OUTPUT_VALID_FLAG1_VIBRATION_ATTENUATION_ENABLE == BIT(6)
DS_OUTPUT_VALID_FLAG2_LED_BRIGHTNESS_CONTROL_ENABLE == BIT(0)
DS_OUTPUT_VALID_FLAG2_LIGHTBAR_SETUP_CONTROL_ENABLE == BIT(1)
DS_OUTPUT_POWER_SAVE_CONTROL_MIC_MUTE == BIT(4)
DS_OUTPUT_LIGHTBAR_SETUP_LIGHT_ON == BIT(0)
DS_OUTPUT_LIGHTBAR_SETUP_LIGHT_OUT == BIT(1)
DS_OUTPUT_AUDIO_OUTPUT_PATH_SHIFT == 4
DS_OUTPUT_AUDIO_INPUT_PATH_SHIFT == 6

DS_TRIGGER_EFFECT_OFF == 5            \* 0x05
DS_TRIGGER_EFFECT_FEEDBACK == 33      \* 0x21
DS_TRIGGER_EFFECT_BOW == 34           \* 0x22
DS_TRIGGER_EFFECT_GALLOPING == 35     \* 0x23
DS_TRIGGER_EFFECT_WEAPON == 37        \* 0x25
DS_TRIGGER_EFFECT_VIBRATION == 38     \* 0x26
DS_TRIGGER_EFFECT_MACHINE == 39       \* 0x27

(***************************************************************************)
(* struct dualsense_output_report_common: byte offset of each member of    *)
(* the packed struct (47 bytes).                                           *)
(***************************************************************************)
valid_flag0 == 0
valid_flag1 == 1
motor_right == 2
motor_left == 3
headphone_audio_volume == 4
speaker_audio_volume == 5
internal_microphone_volume == 6
audio_flags == 7
mute_button_led == 8
power_save_control == 9
right_trigger_motor_mode == 10
right_trigger_param == 11             \* [10]
left_trigger_motor_mode == 21
left_trigger_param == 22              \* [10]
reserved2 == 32                       \* [4]
reduce_motor_power == 36
audio_flags2 == 37
valid_flag2 == 38
haptics_flags == 39
reserved3 == 40                       \* [1]
lightbar_setup == 41
led_brightness == 42
player_leds == 43
lightbar_red == 44
lightbar_green == 45
lightbar_blue == 46
SIZEOF_common == 47

(***************************************************************************)
(* struct dualsense_output_report_bt / _usb: offsets of the members.       *)
(***************************************************************************)
bt_report_id == 0
bt_seq_tag == 1
bt_tag == 2
bt_common == 3
bt_reserved == bt_common + SIZEOF_common            \* [24]
bt_crc32 == bt_reserved + 24
SIZEOF_bt == bt_crc32 + 4

usb_report_id == 0
usb_common == 1
usb_reserved == usb_common + SIZEOF_common          \* [15]
SIZEOF_usb == usb_reserved + 15

(***************************************************************************)
(* struct dualsense and struct dualsense_output_report.                    *)
(***************************************************************************)
\* memset(ds, 0, sizeof(*ds))
ZeroSession == [bt |-> FALSE, dev |-> "NULL", output_seq |-> 0]

\* an output report that no builder has filled yet
NoReport == [data |-> <<>>, len |-> 0, bt |-> FALSE, usb |-> FALSE, common |-> 0]

NoFrame == <<>>

\* contents an uninitialised uint8_t rbuf[DS_OUTPUT_REPORT_BT_SIZE] can hold
StackGarbage ==
    { [i \in 0..(DS_OUTPUT_REPORT_BT_SIZE - 1) |-> 255],
      [i \in 0..(DS_OUTPUT_REPORT_BT_SIZE - 1) |-> (37 * i + 1) % 256] }

\* a memset that leaves the buffer as it was
Memset0_skipped(p, n) == p

\* memset(p, 0, n) on the buffer p
Memset0(p, n) == [i \in DOMAIN p |-> IF i < n THEN 0 ELSE p[i]]

\* the bytes data[0 .. len-1], as handed to hid_write
Frame(r) == [i \in 0..(r.len - 1) |-> r.data[i]]

\* rp->common-><member> = value (a uint8_t store)
SetField(r, member, value) == [r EXCEPT !.data[r.common + member] = u8(value)]

\* rp->common-><member>
GetField(r, member) == r.data[r.common + member]

(***************************************************************************)
(* dualsense_init_output_report(ds, rp, buf): the result is the session    *)
(* (its counter advanced for Bluetooth) and the report.                    *)
(***************************************************************************)
\* the sequence number stored unshifted
seq_tag_unshifted(output_seq) == u8(output_seq)

\* bt->seq_tag = (ds->output_seq << 4) | 0x0
seq_tag(output_seq) == u8(Or8(u8(output_seq * 16), 0))

\* the increment without the wrap at 16
next_output_seq_nowrap(output_seq) == u8(output_seq + 1)

\* if (++ds->output_seq == 16) ds->output_seq = 0
next_output_seq(output_seq) ==
    LET s1 == u8(output_seq + 1)
    IN  IF s1 = 16 THEN 0 ELSE s1

dualsense_init_output_report(d, buf) ==
    IF d.bt
    THEN LET z  == Memset0(buf, SIZEOF_bt)
             b  == [z EXCEPT ![bt_report_id] = DS_OUTPUT_REPORT_BT,
                             ![bt_tag] = DS_OUTPUT_TAG,
                             ![bt_seq_tag] = seq_tag(d.output_seq)]
         IN  [ds |-> [d EXCEPT !.output_seq = next_output_seq(d.output_seq)],
              rp |-> [data |-> b, len |-> SIZEOF_bt, bt |-> TRUE, usb |-> FALSE,
                      common |-> bt_common]]
    ELSE LET z  == Memset0(buf, SIZEOF_usb)
             b  == [z EXCEPT ![usb_report_id] = DS_OUTPUT_REPORT_USB]
         IN  [ds |-> d,
              rp |-> [data |-> b, len |-> SIZEOF_usb, bt |-> FALSE, usb |-> TRUE,
                      common |-> usb_common]]

(***************************************************************************)
(* dualsense_send_output_report(ds, report): signs a Bluetooth report and  *)
(* hands data[0..len-1] to hid_write, whose result is res.                 *)
(***************************************************************************)
\* uint8_t seed = PS_OUTPUT_CRC32_SEED, as the one-byte buffer &seed
CrcSeed == [i \in {0} |-> PS_OUTPUT_CRC32_SEED]

\* report->bt->crc32 = crc: the four bytes of crc, least significant first
StoreCrc32(r, crc) ==
    [r EXCEPT !.data = [i \in DOMAIN r.data |->
                          IF i >= bt_crc32 /\ i < bt_crc32 + 4
                          THEN crc[i - bt_crc32 + 1] ELSE r.data[i]]]

\* the checksum computed without the seed byte
SignReport_noseed(r) ==
    StoreCrc32(r, Not32(crc32_le(<<255, 255, 255, 255>>, r.data, r.len - 4)))

\* lines 297-303: crc over the seed byte, then over data[0 .. len-5],
\* inverted, stored in the crc32 member
SignReport(r) ==
    StoreCrc32(r, Not32(crc32_le(crc32_le(<<255, 255, 255, 255>>, CrcSeed, 1),
                                 r.data, r.len - 4)))

\* int res = hid_write(ds->dev, report->data, report->len): the byte count, or
\* -1 when the transport fails
hid_write(r, ok) == IF ok THEN r.len ELSE -1

\* a transmitter that prints nothing when hid_write fails
WriteReport_silent(r, ok) ==
    [rp |-> r, wire |-> Frame(r), stderr |-> ""]

\* lines 305-309: r is the report as it is handed to hid_write
WriteReport(r, ok) ==
    [rp |-> r,
     wire |-> Frame(r),
     stderr |-> IF hid_write(r, ok) < 0 THEN "Error" ELSE "" ]

\* a transmitter that stamps the sequence tag when it sends
dualsense_send_output_report_stamps_seq(d, report, ok) ==
    WriteReport(IF report.bt
                THEN SignReport([report EXCEPT !.data[bt_seq_tag] = seq_tag(d.output_seq)])
                ELSE report, ok)

dualsense_send_output_report(d, report, ok) ==
    WriteReport(IF report.bt THEN SignReport(report) ELSE report, ok)

(***************************************************************************)
(* dualsense_init(ds, serial): found says how the enumeration and the open *)
(* went ("none": no matching device, "openfail": hid_open returned NULL,   *)
(* "usb"/"bt": opened, interface_number # -1 / = -1).                      *)
(***************************************************************************)
InitOutcomes == {"none", "openfail", "usb", "bt"}

dualsense_init(found) ==
    CASE found = "none"     -> [ret |-> FALSE, ds |-> ZeroSession, stderr |-> "No device found"]
      [] found = "openfail" -> [ret |-> FALSE, ds |-> ZeroSession, stderr |-> "Failed to open device"]
      [] OTHER              -> [ret |-> TRUE,
                                ds |-> [ZeroSession EXCEPT !.dev = "open", !.bt = (found = "bt")],
                                stderr |-> ""]

(***************************************************************************)
(* SpecCodec: the builder and the transmitter used repeatedly on one       *)
(* session.  pc: "start" -> "ready" <-> "built": every report that is    *)
(* built is sent before the next one is built.                             *)
(***************************************************************************)
\* stores an encoder makes into the common block between build and send
\* no report was read
NoInput == [res |-> 0, data |-> <<>>]

\* nothing printed, the handle not yet read nor closed
NoDeviceIo ==
    /\ stdout = <<>>
    /\ inrep = NoInput
    /\ nreads = 0
    /\ nfeatures = 0
    /\ nclosed = 0

\* the process is not in monitor mode
MonitorOff ==
    /\ mpc = "off"
    /\ sh_command_wait = FALSE
    /\ sh_command_add = "NULL"
    /\ sh_command_remove = "NULL"
    /\ child = "none"
    /\ commands = {}
    /\ nevents = 0
    /\ nforked = 0
    /\ nreaped = 0

FieldStores == { <<valid_flag0, 4>>, <<lightbar_blue, 255>> }

InitCodec ==
    /\ pc = "start"
    /\ argv = <<>>
    /\ ds = ZeroSession
    /\ rp = NoReport
    /\ wire = NoFrame
    /\ nwrites = 0
    /\ nbuilt = 0
    /\ status = -1
    /\ stderr = ""
    /\ NoDeviceIo
    /\ MonitorOff

OpenSession ==
    /\ pc = "start"
    /\ \E found \in InitOutcomes :
         LET o == dualsense_init(found)
         IN  /\ ds' = o.ds
             /\ stderr' = o.stderr
             /\ pc' = IF o.ret THEN "ready" ELSE "failed"
    /\ UNCHANGED <<argv, rp, wire, nwrites, nbuilt, status, ioVars, monVars>>

BeginOutputReport ==
    /\ pc = "ready"
    /\ nbuilt < MaxFrames
    /\ \E buf \in StackGarbage :
         LET o == dualsense_init_output_report(ds, buf)
         IN  /\ ds' = o.ds
             /\ rp' = o.rp
    /\ nbuilt' = nbuilt + 1
    /\ pc' = "built"
    /\ UNCHANGED <<argv, wire, nwrites, status, stderr, ioVars, monVars>>

StoreField ==
    /\ pc = "built"
    /\ \E st \in FieldStores : rp' = SetField(rp, st[1], st[2])
    /\ UNCHANGED <<pc, argv, ds, wire, nwrites, nbuilt, status, stderr, ioVars, monVars>>

SendOutputReport ==
    /\ pc = "built"
    /\ \E ok \in BOOLEAN :
         LET o == dualsense_send_output_report(ds, rp, ok)
         IN  /\ rp' = o.rp
             /\ wire' = o.wire
             /\ stderr' = o.stderr
    /\ nwrites' = nwrites + 1
    /\ pc' = "ready"
    /\ UNCHANGED <<argv, ds, nbuilt, status, ioVars, monVars>>

NextCodec == OpenSession \/ BeginOutputReport \/ StoreField \/ SendOutputReport

SpecCodec == InitCodec /\ [][NextCodec]_vars

(***************************************************************************)
(* Command line.  A token of argv is a keyword or a decimal number; argv    *)
(* is the tuple of the tokens, argv[0] of C first.                          *)
(***************************************************************************)
K(s) == [kind |-> "str", val |-> s]
N(n) == [kind |-> "num", val |-> n]

\* !strcmp(tok, s)
streq(tok, s) == tok.kind = "str" /\ tok.val = s

\* atoi(tok): the number a decimal token spells, 0 for a token without digits
atoi(tok) == IF tok.kind = "num" THEN tok.val ELSE 0

argc == Len(argv)

\* argv[i] of C
Arg(i) == argv[i + 1]

(***************************************************************************)
(* What a command encoder leaves behind: the session, the report on its    *)
(* stack, the frame given to hid_write (if any), the number of hid_write   *)
(* calls and of reports built, the last message on stderr and the value    *)
(* it returns.  env is what the encoder finds: the contents of its         *)
(* uninitialised rbuf and whether the transport accepts a write.           *)
(***************************************************************************)
Envs == [rbuf : StackGarbage, write_ok : BOOLEAN]

\* return before any report is built
Fail(d, msg, ret) ==
    [ds |-> d, rp |-> NoReport, wire |-> NoFrame, nwrites |-> 0, nbuilt |-> 0,
     stderr |-> msg, ret |-> ret]

\* return after the report r was built, without sending it
Abandon(d, r, msg, ret) ==
    [ds |-> d, rp |-> r, wire |-> NoFrame, nwrites |-> 0, nbuilt |-> 1,
     stderr |-> msg, ret |-> ret]

\* an encoder that writes the report a second time when the write failed
Sent_retried(d, o) ==
    [ds |-> d, rp |-> o.rp, wire |-> o.wire, nwrites |-> IF o.stderr = "Error" THEN 2 ELSE 1,
     nbuilt |-> 1, stderr |-> o.stderr, ret |-> 0]

\* dualsense_send_output_report(ds, &rp); return 0;
Sent(d, o) ==
    [ds |-> d, rp |-> o.rp, wire |-> o.wire, nwrites |-> 1, nbuilt |-> 1,
     stderr |-> o.stderr, ret |-> 0]

Send(d, r, env) == Sent(d, dualsense_send_output_report(d, r, env.write_ok))

(***************************************************************************)
(* The command encoders.                                                   *)
(***************************************************************************)
\* an encoder that sends the report although the state is not recognised
command_lightbar1_sends_invalid(d, state, env) ==
    LET b  == dualsense_init_output_report(d, env.rbuf)
        r1 == SetField(b.rp, valid_flag2, DS_OUTPUT_VALID_FLAG2_LIGHTBAR_SETUP_CONTROL_ENABLE)
        r2 == SetField(r1, lightbar_setup,
                       IF streq(state, "on") THEN DS_OUTPUT_LIGHTBAR_SETUP_LIGHT_ON
                       ELSE DS_OUTPUT_LIGHTBAR_SETUP_LIGHT_OUT)
        o  == Send(b.ds, r1, env)
    IN  IF streq(state, "on") \/ streq(state, "off")
        THEN Send(b.ds, r2, env)
        ELSE [o EXCEPT !.stderr = "Invalid state", !.ret = 1]

command_lightbar1(d, state, env) ==
    LET b  == dualsense_init_output_report(d, env.rbuf)
        r1 == SetField(b.rp, valid_flag2, DS_OUTPUT_VALID_FLAG2_LIGHTBAR_SETUP_CONTROL_ENABLE)
        r2 == SetField(r1, lightbar_setup,
                       IF streq(state, "on") THEN DS_OUTPUT_LIGHTBAR_SETUP_LIGHT_ON
                       ELSE DS_OUTPUT_LIGHTBAR_SETUP_LIGHT_OUT)
    IN  IF streq(state, "on") \/ streq(state, "off")
        THEN Send(b.ds, r2, env)
        ELSE Abandon(b.ds, r1, "Invalid state", 1)

\* an encoder whose products are narrowed to uint8_t before the division
command_lightbar3_narrow_product(d, red, green, blue, brightness, env) ==
    LET b  == dualsense_init_output_report(d, env.rbuf)
        max_brightness == 255
        r1 == SetField(b.rp, valid_flag1, DS_OUTPUT_VALID_FLAG1_LIGHTBAR_CONTROL_ENABLE)
        r2 == SetField(r1, lightbar_red, u8(brightness * red) \div max_brightness)
        r3 == SetField(r2, lightbar_green, u8(brightness * green) \div max_brightness)
        r4 == SetField(r3, lightbar_blue, u8(brightness * blue) \div max_brightness)
    IN  Send(b.ds, r4, env)

command_lightbar3(d, red, green, blue, brightness, env) ==
    LET b  == dualsense_init_output_report(d, env.rbuf)
        max_brightness == 255
        r1 == SetField(b.rp, valid_flag1, DS_OUTPUT_VALID_FLAG1_LIGHTBAR_CONTROL_ENABLE)
        r2 == SetField(r1, lightbar_red, (brightness * red) \div max_brightness)
        r3 == SetField(r2, lightbar_green, (brightness * green) \div max_brightness)
        r4 == SetField(r3, lightbar_blue, (brightness * blue) \div max_brightness)
    IN  Send(b.ds, r4, env)

command_led_brightness(d, number, env) ==
    IF number > 2
    THEN Fail(d, "Invalid brightness level", 1)
    ELSE LET b  == dualsense_init_output_report(d, env.rbuf)
             r1 == SetField(b.rp, valid_flag2, DS_OUTPUT_VALID_FLAG2_LED_BRIGHTNESS_CONTROL_ENABLE)
             r2 == SetField(r1, led_brightness, number)
         IN  Send(b.ds, r2, env)

\* static const int player_ids[]
player_ids ==
    [n \in 0..7 |->
        CASE n = 0 -> 0
          [] n = 1 -> BIT(2)
          [] n = 2 -> BIT(3) + BIT(1)
          [] n = 3 -> BIT(4) + BIT(2) + BIT(0)
          [] n = 4 -> BIT(4) + BIT(3) + BIT(1) + BIT(0)
          [] n = 5 -> BIT(4) + BIT(3) + BIT(2) + BIT(1) + BIT(0)
          [] n = 6 -> BIT(4) + BIT(0)
          [] n = 7 -> BIT(3) + BIT(2) + BIT(1)]

\* an encoder that puts the instant flag in bit 4
command_player_leds_instant_bit4(d, number, instant, env) ==
    IF number >= Cardinality(DOMAIN player_ids)
    THEN Fail(d, "Invalid player number", 1)
    ELSE LET b  == dualsense_init_output_report(d, env.rbuf)
             r1 == SetField(b.rp, valid_flag1, DS_OUTPUT_VALID_FLAG1_PLAYER_INDICATOR_CONTROL_ENABLE)
             r2 == SetField(r1, player_leds,
                            Or8(player_ids[number], (IF instant THEN 1 ELSE 0) * 16))
         IN  Send(b.ds, r2, env)

command_player_leds(d, number, instant, env) ==
    IF number >= Cardinality(DOMAIN player_ids)
    THEN Fail(d, "Invalid player number", 1)
    ELSE LET b  == dualsense_init_output_report(d, env.rbuf)
             r1 == SetField(b.rp, valid_flag1, DS_OUTPUT_VALID_FLAG1_PLAYER_INDICATOR_CONTROL_ENABLE)
             r2 == SetField(r1, player_leds,
                            Or8(player_ids[number], (IF instant THEN 1 ELSE 0) * 32))
         IN  Send(b.ds, r2, env)

command_microphone(d, state, env) ==
    LET b  == dualsense_init_output_report(d, env.rbuf)
        r1 == SetField(b.rp, valid_flag1, DS_OUTPUT_VALID_FLAG1_POWER_SAVE_CONTROL_ENABLE)
        v  == GetField(r1, power_save_control)
        w  == IF streq(state, "on")
              THEN And8(v, Not8(DS_OUTPUT_POWER_SAVE_CONTROL_MIC_MUTE))
              ELSE Or8(v, DS_OUTPUT_POWER_SAVE_CONTROL_MIC_MUTE)
        r2 == SetField(r1, power_save_control, w)
    IN  IF streq(state, "on") \/ streq(state, "off")
        THEN Send(b.ds, r2, env)
        ELSE Abandon(b.ds, r1, "Invalid state", 1)

command_microphone_led(d, state, env) ==
    LET b  == dualsense_init_output_report(d, env.rbuf)
        r1 == SetField(b.rp, valid_flag1, DS_OUTPUT_VALID_FLAG1_MIC_MUTE_LED_CONTROL_ENABLE)
        w  == IF streq(state, "on") THEN 1
              ELSE IF streq(state, "off") THEN 0
              ELSE 2
        r2 == SetField(r1, mute_button_led, w)
    IN  IF streq(state, "on") \/ streq(state, "off") \/ streq(state, "pulse")
        THEN Send(b.ds, r2, env)
        ELSE Abandon(b.ds, r1, "Invalid state", 1)

command_microphone_mode(d, state, env) ==
    LET b  == dualsense_init_output_report(d, env.rbuf)
        r1 == SetField(b.rp, valid_flag0, DS_OUTPUT_VALID_FLAG0_AUDIO_CONTROL_ENABLE)
        sh == 2 ^ DS_OUTPUT_AUDIO_INPUT_PATH_SHIFT
        w  == IF streq(state, "chat") THEN 1 * sh
              ELSE IF streq(state, "asr") THEN 2 * sh
              ELSE 0
        r2 == SetField(r1, audio_flags, w)
    IN  IF streq(state, "chat") \/ streq(state, "asr") \/ streq(state, "both")
        THEN Send(b.ds, r2, env)
        ELSE Abandon(b.ds, r1, "Invalid state", 1)

\* an encoder that writes the output path next to a chat input path
command_speaker_keeps_input(d, state, env) ==
    LET b  == dualsense_init_output_report(d, env.rbuf)
        r1 == SetField(b.rp, valid_flag0, DS_OUTPUT_VALID_FLAG0_AUDIO_CONTROL_ENABLE)
        sh == 2 ^ DS_OUTPUT_AUDIO_OUTPUT_PATH_SHIFT
        w  == IF streq(state, "internal") THEN 3 * sh
              ELSE IF streq(state, "headphone") THEN 0
              ELSE IF streq(state, "monoheadphone") THEN 1 * sh
              ELSE 2 * sh
        r2 == SetField(r1, audio_flags, Or8(w, 2 ^ DS_OUTPUT_AUDIO_INPUT_PATH_SHIFT))
    IN  IF \E n \in {"internal", "headphone", "monoheadphone", "both"} : streq(state, n)
        THEN Send(b.ds, r2, env)
        ELSE Abandon(b.ds, r1, "Invalid state", 1)

command_speaker(d, state, env) ==
    LET b  == dualsense_init_output_report(d, env.rbuf)
        r1 == SetField(b.rp, valid_flag0, DS_OUTPUT_VALID_FLAG0_AUDIO_CONTROL_ENABLE)
        sh == 2 ^ DS_OUTPUT_AUDIO_OUTPUT_PATH_SHIFT
        w  == IF streq(state, "internal") THEN 3 * sh
              ELSE IF streq(state, "headphone") THEN 0
              ELSE IF streq(state, "monoheadphone") THEN 1 * sh
              ELSE 2 * sh
        r2 == SetField(r1, audio_flags, w)
    IN  IF \E n \in {"internal", "headphone", "monoheadphone", "both"} : streq(state, n)
        THEN Send(b.ds, r2, env)
        ELSE Abandon(b.ds, r1, "Invalid state", 1)

\* an encoder that also enables the speaker pre-gain control (lines 793-794)
command_volume_with_pregain(d, volume, env) ==
    LET b  == dualsense_init_output_report(d, env.rbuf)
        max_volume == 255
        r1 == SetField(b.rp, valid_flag0, DS_OUTPUT_VALID_FLAG0_HEADPHONE_VOLUME_ENABLE)
        r2 == SetField(r1, headphone_audio_volume, (volume * 127) \div max_volume)
        r3 == SetField(r2, valid_flag0,
                       Or8(GetField(r2, valid_flag0), DS_OUTPUT_VALID_FLAG0_SPEAKER_VOLUME_ENABLE))
        r4 == SetField(r3, speaker_audio_volume, (volume * 100) \div max_volume)
        r5 == SetField(r4, valid_flag1, BIT(7))
        r6 == SetField(r5, audio_flags2, 4)
    IN  Send(b.ds, r6, env)

\* an encoder whose products are narrowed to uint8_t before the division
command_volume_narrow_product(d, volume, env) ==
    LET b  == dualsense_init_output_report(d, env.rbuf)
        max_volume == 255
        r1 == SetField(b.rp, valid_flag0, DS_OUTPUT_VALID_FLAG0_HEADPHONE_VOLUME_ENABLE)
        r2 == SetField(r1, headphone_audio_volume, u8(volume * 127) \div max_volume)
        r3 == SetField(r2, valid_flag0,
                       Or8(GetField(r2, valid_flag0), DS_OUTPUT_VALID_FLAG0_SPEAKER_VOLUME_ENABLE))
        r4 == SetField(r3, speaker_audio_volume, u8(volume * 100) \div max_volume)
    IN  Send(b.ds, r4, env)

command_volume(d, volume, env) ==
    LET b  == dualsense_init_output_report(d, env.rbuf)
        max_volume == 255
        r1 == SetField(b.rp, valid_flag0, DS_OUTPUT_VALID_FLAG0_HEADPHONE_VOLUME_ENABLE)
        r2 == SetField(r1, headphone_audio_volume, (volume * 127) \div max_volume)
        r3 == SetField(r2, valid_flag0,
                       Or8(GetField(r2, valid_flag0), DS_OUTPUT_VALID_FLAG0_SPEAKER_VOLUME_ENABLE))
        r4 == SetField(r3, speaker_audio_volume, (volume * 100) \div max_volume)
    IN  Send(b.ds, r4, env)

command_vibration_attenuation(d, rumble_attenuation, trigger_attenuation, env) ==
    LET b  == dualsense_init_output_report(d, env.rbuf)
        r1 == SetField(b.rp, valid_flag1, DS_OUTPUT_VALID_FLAG1_VIBRATION_ATTENUATION_ENABLE)
        r2 == SetField(r1, reduce_motor_power,
                       Or8(And8(rumble_attenuation, 7), And8(trigger_attenuation, 7) * 16))
    IN  Send(b.ds, r2, env)

(***************************************************************************)
(* The trigger-effect encoders.  params is the tuple param1 .. param9,     *)
(* strength a function from the zones 0..9 to uint8_t values.              *)
(***************************************************************************)
And16(a, b) == And8(a % 256, b % 256) + 256 * And8((a \div 256) % 256, (b \div 256) % 256)

Or16(a, b) == a + b - And16(a, b)

u16(x) == x % 65536

Sum10(f) == f[0] + f[1] + f[2] + f[3] + f[4] + f[5] + f[6] + f[7] + f[8] + f[9]

\* an encoder that writes the block of the selected side only
command_trigger_selected_only(d, trigger, mode, params, env) ==
    LET b  == dualsense_init_output_report(d, env.rbuf)
        r1 == IF streq(trigger, "right") \/ streq(trigger, "both")
              THEN SetField(b.rp, valid_flag0, DS_OUTPUT_VALID_FLAG0_RIGHT_TRIGGER_MOTOR_ENABLE)
              ELSE b.rp
        r2 == IF streq(trigger, "left") \/ streq(trigger, "both")
              THEN SetField(r1, valid_flag0,
                            Or8(GetField(r1, valid_flag0),
                                DS_OUTPUT_VALID_FLAG0_LEFT_TRIGGER_MOTOR_ENABLE))
              ELSE r1
        c  == r2.common
        r3 == [r2 EXCEPT !.data = [i \in DOMAIN r2.data |->
                 IF streq(trigger, "left") THEN
                    (IF i = c + left_trigger_motor_mode THEN u8(mode)
                     ELSE IF i >= c + left_trigger_param /\ i <= c + left_trigger_param + 8
                     THEN u8(params[i - (c + left_trigger_param) + 1])
                     ELSE r2.data[i])
                 ELSE IF i = c + right_trigger_motor_mode THEN u8(mode)
                 ELSE IF i >= c + right_trigger_param /\ i <= c + right_trigger_param + 8
                 THEN u8(params[i - (c + right_trigger_param) + 1])
                 ELSE IF streq(trigger, "right") THEN r2.data[i]
                 ELSE IF i = c + left_trigger_motor_mode THEN u8(mode)
                 ELSE IF i >= c + left_trigger_param /\ i <= c + left_trigger_param + 8
                 THEN u8(params[i - (c + left_trigger_param) + 1])
                 ELSE r2.data[i]]]
    IN  Send(b.ds, r3, env)

command_trigger(d, trigger, mode, params, env) ==
    LET b  == dualsense_init_output_report(d, env.rbuf)
        r1 == IF streq(trigger, "right") \/ streq(trigger, "both")
              THEN SetField(b.rp, valid_flag0, DS_OUTPUT_VALID_FLAG0_RIGHT_TRIGGER_MOTOR_ENABLE)
              ELSE b.rp
        r2 == IF streq(trigger, "left") \/ streq(trigger, "both")
              THEN SetField(r1, valid_flag0,
                            Or8(GetField(r1, valid_flag0),
                                DS_OUTPUT_VALID_FLAG0_LEFT_TRIGGER_MOTOR_ENABLE))
              ELSE r1
        c  == r2.common
        r3 == [r2 EXCEPT !.data = [i \in DOMAIN r2.data |->
                 IF i = c + right_trigger_motor_mode THEN u8(mode)
                 ELSE IF i >= c + right_trigger_param /\ i <= c + right_trigger_param + 8
                 THEN u8(params[i - (c + right_trigger_param) + 1])
                 ELSE IF i = c + left_trigger_motor_mode THEN u8(mode)
                 ELSE IF i >= c + left_trigger_param /\ i <= c + left_trigger_param + 8
                 THEN u8(params[i - (c + left_trigger_param) + 1])
                 ELSE r2.data[i]]]
    IN  Send(b.ds, r3, env)

command_trigger_off(d, trigger, env) ==
    command_trigger(d, trigger, DS_TRIGGER_EFFECT_OFF, <<0, 0, 0, 0, 0, 0, 0, 0, 0>>, env)

\* a packing that keeps the low 24 bits of the strength field only
trigger_bitpacking_array_24bit(d, trigger, mode, strength, frequency, env) ==
    IF \E i \in 0..9 : strength[i] > 8
    THEN Fail(d, "strengths must be between 0 and 8", 1)
    ELSE LET strength_zones ==
                 Sum10([i \in 0..9 |-> IF strength[i] > 0
                                       THEN And8(u8(strength[i] - 1), 7) * (2 ^ (3 * i))
                                       ELSE 0])
             active_zones ==
                 u16(Sum10([i \in 0..9 |-> IF strength[i] > 0 THEN 2 ^ i ELSE 0]))
         IN  command_trigger(d, trigger, mode,
                             << active_zones % 256,
                                (active_zones \div 256) % 256,
                                strength_zones % 256,
                                (strength_zones \div 256) % 256,
                                (strength_zones \div 65536) % 256,
                                0,
                                0, 0,
                                frequency >>, env)

\* a packing that stores the strength itself, not strength - 1
trigger_bitpacking_array_no_minus(d, trigger, mode, strength, frequency, env) ==
    IF \E i \in 0..9 : strength[i] > 8
    THEN Fail(d, "strengths must be between 0 and 8", 1)
    ELSE LET strength_zones ==
                 Sum10([i \in 0..9 |-> IF strength[i] > 0
                                       THEN And8(u8(strength[i]), 7) * (2 ^ (3 * i))
                                       ELSE 0])
             active_zones ==
                 u16(Sum10([i \in 0..9 |-> IF strength[i] > 0 THEN 2 ^ i ELSE 0]))
         IN  command_trigger(d, trigger, mode,
                             << active_zones % 256,
                                (active_zones \div 256) % 256,
                                strength_zones % 256,
                                (strength_zones \div 256) % 256,
                                (strength_zones \div 65536) % 256,
                                (strength_zones \div 16777216) % 256,
                                0, 0,
                                frequency >>, env)

\* the zones are disjoint bit groups, so the |= of the loop is a sum
trigger_bitpacking_array(d, trigger, mode, strength, frequency, env) ==
    IF \E i \in 0..9 : strength[i] > 8
    THEN Fail(d, "strengths must be between 0 and 8", 1)
    ELSE LET strength_zones ==
                 Sum10([i \in 0..9 |-> IF strength[i] > 0
                                       THEN And8(u8(strength[i] - 1), 7) * (2 ^ (3 * i))
                                       ELSE 0])
             active_zones ==
                 u16(Sum10([i \in 0..9 |-> IF strength[i] > 0 THEN 2 ^ i ELSE 0]))
         IN  command_trigger(d, trigger, mode,
                             << active_zones % 256,
                                (active_zones \div 256) % 256,
                                strength_zones % 256,
                                (strength_zones \div 256) % 256,
                                (strength_zones \div 65536) % 256,
                                (strength_zones \div 16777216) % 256,
                                0, 0,
                                frequency >>, env)

\* an encoder that fills the zones up to position, not from position on
command_trigger_feedback_below_position(d, trigger, position, strength, env) ==
    IF position > 9
    THEN Fail(d, "position must be between 0 and 9", 1)
    ELSE IF strength > 8 \/ ~(strength > 0)
    THEN Fail(d, "strength must be between 1 and 8", 1)
    ELSE LET strength_array == [i \in 0..9 |-> IF i <= position THEN strength ELSE 0]
         IN  trigger_bitpacking_array(d, trigger, DS_TRIGGER_EFFECT_FEEDBACK, strength_array, 0, env)

command_trigger_feedback(d, trigger, position, strength, env) ==
    IF position > 9
    THEN Fail(d, "position must be between 0 and 9", 1)
    ELSE IF strength > 8 \/ ~(strength > 0)
    THEN Fail(d, "strength must be between 1 and 8", 1)
    ELSE LET strength_array == [i \in 0..9 |-> IF i >= position THEN strength ELSE 0]
         IN  trigger_bitpacking_array(d, trigger, DS_TRIGGER_EFFECT_FEEDBACK, strength_array, 0, env)

\* an encoder that lets start position 1 through
command_trigger_weapon_from_one(d, trigger, start_position, end_position, strength, env) ==
    IF start_position > 7 \/ start_position < 1
    THEN Fail(d, "start position must be between 2 and 7", 1)
    ELSE IF end_position > 8 \/ end_position < start_position + 1
    THEN Fail(d, "end position must be between start position+1 and 8", 1)
    ELSE IF strength > 8 \/ ~(strength > 0)
    THEN Fail(d, "strength must be between 1 and 8", 1)
    ELSE LET start_stop_zones == u16(Or16(2 ^ start_position, 2 ^ end_position))
         IN  command_trigger(d, trigger, DS_TRIGGER_EFFECT_WEAPON,
                             << start_stop_zones % 256,
                                (start_stop_zones \div 256) % 256,
                                u8(strength - 1),
                                0, 0, 0, 0, 0, 0 >>, env)

command_trigger_weapon(d, trigger, start_position, end_position, strength, env) ==
    IF start_position > 7 \/ start_position < 2
    THEN Fail(d, "start position must be between 2 and 7", 1)
    ELSE IF end_position > 8 \/ end_position < start_position + 1
    THEN Fail(d, "end position must be between start position+1 and 8", 1)
    ELSE IF strength > 8 \/ ~(strength > 0)
    THEN Fail(d, "strength must be between 1 and 8", 1)
    ELSE LET start_stop_zones == u16(Or16(2 ^ start_position, 2 ^ end_position))
         IN  command_trigger(d, trigger, DS_TRIGGER_EFFECT_WEAPON,
                             << start_stop_zones % 256,
                                (start_stop_zones \div 256) % 256,
                                u8(strength - 1),
                                0, 0, 0, 0, 0, 0 >>, env)

\* an encoder that lets end position 9 through
command_trigger_bow_end_nine(d, trigger, start_position, end_position, strength, snap_force, env) ==
    IF start_position > 8 \/ ~(start_position > 0)
    THEN Fail(d, "start position must be between 0 and 8", 1)
    ELSE IF end_position > 9 \/ end_position < start_position + 1
    THEN Fail(d, "end position must be between start position+1 and 8", 1)
    ELSE IF strength > 8 \/ ~(strength > 0)
    THEN Fail(d, "strength must be between 1 and 8", 1)
    ELSE IF snap_force > 8 \/ ~(snap_force > 0)
    THEN Fail(d, "snap_force must be between 1 and 8", 1)
    ELSE LET start_stop_zones == u16(Or16(2 ^ start_position, 2 ^ end_position))
             force_pair == u16(Or8(And8(u8(strength - 1), 7), And8(u8(snap_force - 1), 7) * 8))
         IN  command_trigger(d, trigger, DS_TRIGGER_EFFECT_BOW,
                             << start_stop_zones % 256,
                                (start_stop_zones \div 256) % 256,
                                force_pair % 256,
                                0, 0, 0, 0, 0, 0 >>, env)

command_trigger_bow(d, trigger, start_position, end_position, strength, snap_force, env) ==
    IF start_position > 8 \/ ~(start_position > 0)
    THEN Fail(d, "start position must be between 0 and 8", 1)
    ELSE IF end_position > 8 \/ end_position < start_position + 1
    THEN Fail(d, "end position must be between start position+1 and 8", 1)
    ELSE IF strength > 8 \/ ~(strength > 0)
    THEN Fail(d, "strength must be between 1 and 8", 1)
    ELSE IF snap_force > 8 \/ ~(snap_force > 0)
    THEN Fail(d, "snap_force must be between 1 and 8", 1)
    ELSE LET start_stop_zones == u16(Or16(2 ^ start_position, 2 ^ end_position))
             force_pair == u16(Or8(And8(u8(strength - 1), 7), And8(u8(snap_force - 1), 7) * 8))
         IN  command_trigger(d, trigger, DS_TRIGGER_EFFECT_BOW,
                             << start_stop_zones % 256,
                                (start_stop_zones \div 256) % 256,
                                force_pair % 256,
                                0, 0, 0, 0, 0, 0 >>, env)

\* an encoder that packs the feet the other way round
command_trigger_galloping_feet_swapped(d, trigger, start_position, end_position, first_foot, second_foot, frequency, env) ==
    IF start_position > 8
    THEN Fail(d, "start position must be between 0 and 8", 1)
    ELSE IF end_position > 9 \/ end_position < start_position + 1
    THEN Fail(d, "end position must be between start position+1 and 9", 1)
    ELSE IF first_foot > 6
    THEN Fail(d, "first_foot must be between 0 and 8", 1)
    ELSE IF second_foot > 7 \/ second_foot < first_foot + 1
    THEN Fail(d, "second_foot must be between first_foot+1 and 8", 1)
    ELSE IF ~(frequency > 0)
    THEN Fail(d, "frequency must be greater than 0", 1)
    ELSE LET start_stop_zones == u16(Or16(2 ^ start_position, 2 ^ end_position))
             ratio == u16(Or8(And8(first_foot, 7), And8(second_foot, 7) * 8))
         IN  command_trigger(d, trigger, DS_TRIGGER_EFFECT_GALLOPING,
                             << start_stop_zones % 256,
                                (start_stop_zones \div 256) % 256,
                                ratio % 256,
                                frequency,
                                0, 0, 0, 0, 0 >>, env)

command_trigger_galloping(d, trigger, start_position, end_position, first_foot, second_foot, frequency, env) ==
    IF start_position > 8
    THEN Fail(d, "start position must be between 0 and 8", 1)
    ELSE IF end_position > 9 \/ end_position < start_position + 1
    THEN Fail(d, "end position must be between start position+1 and 9", 1)
    ELSE IF first_foot > 6
    THEN Fail(d, "first_foot must be between 0 and 8", 1)
    ELSE IF second_foot > 7 \/ second_foot < first_foot + 1
    THEN Fail(d, "second_foot must be between first_foot+1 and 8", 1)
    ELSE IF ~(frequency > 0)
    THEN Fail(d, "frequency must be greater than 0", 1)
    ELSE LET start_stop_zones == u16(Or16(2 ^ start_position, 2 ^ end_position))
             ratio == u16(Or8(And8(second_foot, 7), And8(first_foot, 7) * 8))
         IN  command_trigger(d, trigger, DS_TRIGGER_EFFECT_GALLOPING,
                             << start_stop_zones % 256,
                                (start_stop_zones \div 256) % 256,
                                ratio % 256,
                                frequency,
                                0, 0, 0, 0, 0 >>, env)

command_trigger_machine(d, trigger, start_position, end_position, strength_a, strength_b, frequency, period, env) ==
    IF start_position > 8 \/ ~(start_position > 0)
    THEN Fail(d, "start position must be between 1 and 8", 1)
    ELSE IF end_position > 9 \/ end_position < start_position + 1
    THEN Fail(d, "end position must be between start position+1 and 9", 1)
    ELSE IF strength_a > 7
    THEN Fail(d, "strength_a position must be between 0 and 7", 1)
    ELSE IF strength_b > 7
    THEN Fail(d, "strength_b position must be between 0 and 7", 1)
    ELSE IF ~(frequency > 0)
    THEN Fail(d, "frequency must be greater than 0", 1)
    ELSE LET start_stop_zones == u16(Or16(2 ^ start_position, 2 ^ end_position))
             force_pair == u16(Or8(And8(strength_a, 7), And8(strength_b, 7) * 8))
         IN  command_trigger(d, trigger, DS_TRIGGER_EFFECT_MACHINE,
                             << start_stop_zones % 256,
                                (start_stop_zones \div 256) % 256,
                                force_pair % 256,
                                frequency,
                                period,
                                0, 0, 0, 0 >>, env)

\* an encoder that leaves the frequency out of the parameters
command_trigger_vibration_no_frequency(d, trigger, position, amplitude, frequency, env) ==
    IF position > 9
    THEN Fail(d, "position must be between 0 and 9", 1)
    ELSE IF amplitude > 8 \/ ~(amplitude > 0)
    THEN Fail(d, "amplitude must be between 1 and 8", 1)
    ELSE IF ~(frequency > 0)
    THEN Fail(d, "frequency must be greater than 0", 1)
    ELSE LET strength_array == [i \in 0..9 |-> IF i >= position THEN amplitude ELSE 0]
         IN  trigger_bitpacking_array(d, trigger, DS_TRIGGER_EFFECT_VIBRATION, strength_array,
                                      0, env)

command_trigger_vibration(d, trigger, position, amplitude, frequency, env) ==
    IF position > 9
    THEN Fail(d, "position must be between 0 and 9", 1)
    ELSE IF amplitude > 8 \/ ~(amplitude > 0)
    THEN Fail(d, "amplitude must be between 1 and 8", 1)
    ELSE IF ~(frequency > 0)
    THEN Fail(d, "frequency must be greater than 0", 1)
    ELSE LET strength_array == [i \in 0..9 |-> IF i >= position THEN amplitude ELSE 0]
         IN  trigger_bitpacking_array(d, trigger, DS_TRIGGER_EFFECT_VIBRATION, strength_array,
                                      frequency, env)

command_trigger_feedback_raw(d, trigger, strength, env) ==
    trigger_bitpacking_array(d, trigger, DS_TRIGGER_EFFECT_FEEDBACK, strength, 0, env)

command_trigger_vibration_raw(d, trigger, strength, frequency, env) ==
    trigger_bitpacking_array(d, trigger, DS_TRIGGER_EFFECT_VIBRATION, strength, frequency, env)

(***************************************************************************)
(* The commands that do not send an output report: power-off, battery,     *)
(* info.  Each returns what it printed and its return value.               *)
(***************************************************************************)
DS_INPUT_REPORT_USB == 1
DS_INPUT_REPORT_USB_SIZE == 64
DS_INPUT_REPORT_BT == 49
DS_INPUT_REPORT_BT_SIZE == 78
DS_FEATURE_REPORT_FIRMWARE_INFO == 32
DS_FEATURE_REPORT_FIRMWARE_INFO_SIZE == 64
DS_STATUS_BATTERY_CAPACITY == 15
DS_STATUS_CHARGING == 240
DS_STATUS_CHARGING_SHIFT == 4

\* offsetof(struct dualsense_input_report, status)
input_status == 52

\* how the D-Bus calls of dualsense_bt_disconnect can go
BtDisconnectOutcomes == {"ok", "no-bus", "no-objects", "no-device", "no-disconnect"}

dualsense_bt_disconnect(outcome) ==
    CASE outcome = "no-bus"        -> [ret |-> FALSE, stderr |-> "Failed to connect to DBus daemon"]
      [] outcome = "no-objects"    -> [ret |-> FALSE, stderr |-> "Failed to enumerate BT devices"]
      [] outcome = "no-device"     -> [ret |-> FALSE, stderr |-> "Failed to find BT device"]
      [] outcome = "no-disconnect" -> [ret |-> FALSE, stderr |-> "Failed to disconnect BT device"]
      [] OTHER                     -> [ret |-> TRUE, stderr |-> ""]

command_power_off(d, outcome) ==
    IF ~d.bt
    THEN [stdout |-> <<>>, stderr |-> "Controller is not connected via BT", ret |-> 1]
    ELSE IF ~dualsense_bt_disconnect(outcome).ret
    THEN [stdout |-> <<>>, stderr |-> dualsense_bt_disconnect(outcome).stderr, ret |-> 2]
    ELSE [stdout |-> <<>>, stderr |-> "", ret |-> 0]

\* #define min(a, b)
min(a, b) == IF a < b THEN a ELSE b

\* a decoder that leaves out the min()
battery_line_unclamped(st) ==
    LET battery_data == And8(st, DS_STATUS_BATTERY_CAPACITY)
        charging_status == And8(st, DS_STATUS_CHARGING) \div (2 ^ DS_STATUS_CHARGING_SHIFT)
    IN  CASE charging_status = 0 -> <<u8(battery_data * 10 + 5), "discharging">>
          [] charging_status = 1 -> <<u8(battery_data * 10 + 5), "charging">>
          [] charging_status = 2 -> <<100, "full">>
          [] charging_status \in {10, 11} -> <<0, "not-charging">>
          [] OTHER -> <<0, "unknown">>

\* lines 521-556: the line printed for a status byte, "%d %s"
battery_line(st) ==
    LET battery_data == And8(st, DS_STATUS_BATTERY_CAPACITY)
        charging_status == And8(st, DS_STATUS_CHARGING) \div (2 ^ DS_STATUS_CHARGING_SHIFT)
    IN  CASE charging_status = 0 -> <<u8(min(battery_data * 10 + 5, 100)), "discharging">>
          [] charging_status = 1 -> <<u8(min(battery_data * 10 + 5, 100)), "charging">>
          [] charging_status = 2 -> <<100, "full">>
          [] charging_status \in {10, 11} -> <<0, "not-charging">>
          [] OTHER -> <<0, "unknown">>

\* an interpreter that picks the framing by report id and length alone
command_battery_any_transport(d, rd) ==
    IF rd.res <= 0
    THEN [stdout |-> <<>>,
          stderr |-> IF rd.res = 0 THEN "Timeout waiting for report" ELSE "Failed to read report",
          ret |-> 2]
    ELSE IF rd.data[0] = DS_INPUT_REPORT_USB /\ rd.res = DS_INPUT_REPORT_USB_SIZE
    THEN [stdout |-> <<battery_line(rd.data[1 + input_status])>>, stderr |-> "", ret |-> 0]
    ELSE IF rd.data[0] = DS_INPUT_REPORT_BT /\ rd.res = DS_INPUT_REPORT_BT_SIZE
    THEN [stdout |-> <<battery_line(rd.data[2 + input_status])>>, stderr |-> "", ret |-> 0]
    ELSE [stdout |-> <<>>, stderr |-> "Unhandled report ID", ret |-> 3]

\* rd: res and data as hid_read_timeout(ds->dev, data, sizeof(data), 1000) left them
command_battery(d, rd) ==
    IF rd.res <= 0
    THEN [stdout |-> <<>>,
          stderr |-> IF rd.res = 0 THEN "Timeout waiting for report" ELSE "Failed to read report",
          ret |-> 2]
    ELSE IF ~d.bt /\ rd.data[0] = DS_INPUT_REPORT_USB /\ rd.res = DS_INPUT_REPORT_USB_SIZE
    THEN [stdout |-> <<battery_line(rd.data[1 + input_status])>>, stderr |-> "", ret |-> 0]
    ELSE IF d.bt /\ rd.data[0] = DS_INPUT_REPORT_BT /\ rd.res = DS_INPUT_REPORT_BT_SIZE
    THEN [stdout |-> <<battery_line(rd.data[2 + input_status])>>, stderr |-> "", ret |-> 0]
    ELSE [stdout |-> <<>>, stderr |-> "Unhandled report ID", ret |-> 3]

\* the firmware fields that are printed, as the six lines of lines 574-579
firmware_lines(fw) ==
    << <<"Hardware", fw.hardware_info>>,
       <<"Build date", fw.build_date, fw.build_time>>,
       <<"Firmware", fw.firmware_version, fw.fw_type>>,
       <<"Fw version", fw.fw_version_1, fw.fw_version_2, fw.fw_version_3>>,
       <<"Sw series", fw.sw_series>>,
       <<"Update version", fw.update_version>> >>

\* an info command that returns 1 when the feature report is not usable
command_info_failure_status(d, rd) ==
    IF rd.res # DS_FEATURE_REPORT_FIRMWARE_INFO_SIZE
    THEN [stdout |-> <<>>, stderr |-> "Invalid feature report", ret |-> 1]
    ELSE [stdout |-> firmware_lines(rd.data), stderr |-> "", ret |-> 0]

\* rd: res and buf as hid_get_feature_report(ds->dev, buf, sizeof(buf)) left
\* them; return false is the int 0
command_info(d, rd) ==
    IF rd.res # DS_FEATURE_REPORT_FIRMWARE_INFO_SIZE
    THEN [stdout |-> <<>>, stderr |-> "Invalid feature report", ret |-> 0]
    ELSE [stdout |-> firmware_lines(rd.data), stderr |-> "", ret |-> 0]

(***************************************************************************)
(* What the device can answer to a read.                                   *)
(***************************************************************************)
\* a buffer of sizeof(data) bytes with report id and the two bytes where the
\* status of a USB and of a Bluetooth input report lie
InputData(id, usb_status, bt_status) ==
    [i \in 0..(DS_INPUT_REPORT_BT_SIZE - 1) |->
        IF i = 0 THEN id
        ELSE IF i = 1 + input_status THEN usb_status
        ELSE IF i = 2 + input_status THEN bt_status
        ELSE 0]

\* hid_read_timeout: an error, a timeout, every status byte in a well-framed
\* USB and Bluetooth report, and ids and lengths that match no framing
InputReads ==
    {[res |-> r, data |-> InputData(0, 0, 0)] : r \in {-1, 0}}
    \cup {[res |-> DS_INPUT_REPORT_USB_SIZE, data |-> InputData(DS_INPUT_REPORT_USB, st, 255 - st)] :
            st \in 0..255}
    \cup {[res |-> DS_INPUT_REPORT_BT_SIZE, data |-> InputData(DS_INPUT_REPORT_BT, 255 - st, st)] :
            st \in 0..255}
    \cup {[res |-> r, data |-> InputData(id, 85, 85)] :
            r \in {1, 10, 63, 64, 77, 78}, id \in {0, DS_INPUT_REPORT_USB, DS_INPUT_REPORT_BT}}

FirmwareInfos ==
    {[hardware_info |-> hw, build_date |-> "Jun 19 2023", build_time |-> "14:47:29",
      firmware_version |-> 272, fw_type |-> t, fw_version_1 |-> 1, fw_version_2 |-> 2,
      fw_version_3 |-> 3, sw_series |-> 4, update_version |-> 1064] :
        hw \in {0, 777}, t \in {0, 2}}

\* hid_get_feature_report: an error, a short report, or the whole report
FeatureReads ==
    {[res |-> r, data |-> fw] : r \in {-1, 0, 1, 63, DS_FEATURE_REPORT_FIRMWARE_INFO_SIZE},
                                fw \in FirmwareInfos}

(***************************************************************************)
(* Command lines of the model: argc and argv as main() has them at line     *)
(* 1343, after the option handling.                                        *)
(***************************************************************************)
Line(args) == <<K("dualsensectl")>> \o args

TriggerNames == {K("left"), K("right"), K("both")}

\* the ten zone strengths given to feedback-raw and vibration-raw, as typed
ZoneArrays ==
    {[i \in 0..9 |-> IF i >= pos THEN st ELSE 0] : pos \in {0, 4, 8, 9}, st \in {1, 2, 7, 8}}
    \cup {[i \in 0..9 |-> IF i = z THEN v ELSE 0] : z \in 0..9, v \in {1, 8}}
    \cup {[i \in 0..9 |-> (i * k) % 9] : k \in 0..8}
    \cup {[i \in 0..9 |-> ((i * k) % 8) + 1] : k \in {1, 3, 5}}
    \cup {[i \in 0..9 |-> IF i = z THEN v ELSE 1] : z \in {0, 9}, v \in {9, -1, 256, 264}}

ZoneTokens(a) == [i \in 1..10 |-> N(a[i - 1])]

\* channel and brightness values given on the command line
LightLevels == {0, 1, 2, 64, 127, 128, 129, 200, 254, 255}

LinesLightbar ==
    {Line(<<K("lightbar"), t>>) : t \in {K("on"), K("off"), K("blink"), N(1)}}
    \cup {Line(<<K("lightbar"), N(r), N(g), N(b)>>) :
            r \in LightLevels \cup {256, -1}, g \in {0, 128, 256}, b \in {0, 255, -1}}
    \cup {Line(<<K("lightbar"), N(r), N(g), N(b), N(br)>>) :
            r \in LightLevels \cup {256}, g \in {0, 128, 255}, b \in {0, 1, 255},
            br \in LightLevels \cup {300, -1}}
    \cup {Line(<<K("lightbar")>>), Line(<<K("lightbar"), N(1), N(2)>>)}

LinesLedBrightness ==
    {Line(<<K("led-brightness"), N(n)>>) : n \in {0, 1, 2, 3, 256, -1}}
    \cup {Line(<<K("led-brightness")>>)}

LinesPlayerLeds ==
    {Line(<<K("player-leds"), N(n)>>) : n \in (0..9) \cup {128, 255, 256, -1}}
    \cup {Line(<<K("player-leds"), N(n), t>>) : n \in (0..8) \cup {255}, t \in {K("instant"), K("slow")}}
    \cup {Line(<<K("player-leds")>>)}

LinesMicrophone ==
    {Line(<<K("microphone"), t>>) : t \in {K("on"), K("off"), K("mute")}}
    \cup {Line(<<K("microphone-led"), t>>) : t \in {K("on"), K("off"), K("pulse"), K("blink")}}
    \cup {Line(<<K("microphone-mode"), t>>) : t \in {K("chat"), K("asr"), K("both"), K("off")}}
    \cup {Line(<<K(c)>>) : c \in {"microphone", "microphone-led", "microphone-mode"}}

LinesSpeaker ==
    {Line(<<K("speaker"), t>>) :
        t \in {K("internal"), K("headphone"), K("monoheadphone"), K("both"), K("off")}}
    \cup {Line(<<K("speaker")>>)}

LinesVolume ==
    {Line(<<K("volume"), N(v)>>) : v \in (0..255) \cup {256, 1000, -1}}
    \cup {Line(<<K("volume")>>)}

LinesAttenuation ==
    {Line(<<K("attenuation"), N(r), N(t)>>) : r \in {0, 3, 7, 8, -1}, t \in {0, 3, 7, 8, -1}}
    \cup {Line(<<K("attenuation"), N(1)>>)}

LinesTriggerPrefix ==
    {Line(<<K("trigger"), K("left")>>), Line(<<K("trigger"), K("up"), K("off")>>),
     Line(<<K("trigger"), N(1), N(33), N(1)>>)}

LinesTriggerOff == {Line(<<K("trigger"), t, K("off")>>) : t \in TriggerNames}

LinesTriggerFeedback ==
    {Line(<<K("trigger"), t, K("feedback"), N(p), N(st)>>) :
        t \in TriggerNames, p \in {0, 3, 9, 10, -1}, st \in {0, 1, 4, 8, 9, 264}}
    \cup {Line(<<K("trigger"), K("left"), K("feedback"), N(1)>>)}

LinesTriggerWeapon ==
    {Line(<<K("trigger"), t, K("weapon"), N(a), N(e), N(st)>>) :
        t \in {K("left"), K("both")}, a \in {1, 2, 5, 7, 8}, e \in {2, 6, 8, 9}, st \in {0, 1, 8, 9}}
    \cup {Line(<<K("trigger"), K("left"), K("weapon"), N(2), N(3)>>)}

LinesTriggerBow ==
    {Line(<<K("trigger"), K("right"), K("bow"), N(a), N(e), N(st), N(sn)>>) :
        a \in {0, 1, 4, 7, 8, 9}, e \in {2, 5, 8, 9}, st \in {1, 8, 9}, sn \in {0, 1, 8, 9}}
    \cup {Line(<<K("trigger"), K("left"), K("bow"), N(1), N(2), N(3)>>)}

LinesTriggerGalloping ==
    {Line(<<K("trigger"), K("both"), K("galloping"), N(a), N(e), N(f1), N(f2), N(fr)>>) :
        a \in {0, 8, 9}, e \in {1, 9, 10}, f1 \in {0, 6, 7}, f2 \in {1, 7, 8}, fr \in {0, 9}}
    \cup {Line(<<K("trigger"), K("left"), K("galloping"), N(0), N(1), N(0), N(1)>>)}

LinesTriggerMachine ==
    {Line(<<K("trigger"), K("left"), K("machine"), N(a), N(e), N(sa), N(sb), N(fr), N(pe)>>) :
        a \in {0, 1, 8, 9}, e \in {2, 9, 10}, sa \in {7, 8}, sb \in {0, 7, 8}, fr \in {0, 3},
        pe \in {0, 200}}
    \cup {Line(<<K("trigger"), K("left"), K("machine"), N(1), N(2), N(0), N(0), N(1)>>)}

LinesTriggerVibration ==
    {Line(<<K("trigger"), t, K("vibration"), N(p), N(am), N(fr)>>) :
        t \in {K("left"), K("both")}, p \in {0, 5, 9, 10}, am \in {0, 1, 8, 9}, fr \in {0, 40, 255}}
    \cup {Line(<<K("trigger"), K("left"), K("vibration"), N(0), N(1)>>)}

LinesTriggerFeedbackRaw ==
    {Line(<<K("trigger"), t, K("feedback-raw")>> \o ZoneTokens(a)) :
        t \in TriggerNames, a \in ZoneArrays}
    \cup {Line(<<K("trigger"), K("left"), K("feedback-raw"), N(1), N(2)>>)}

LinesTriggerVibrationRaw ==
    {Line(<<K("trigger"), K("right"), K("vibration-raw")>> \o ZoneTokens(a) \o <<N(fr)>>) :
        a \in ZoneArrays, fr \in {0, 40}}
    \cup {Line(<<K("trigger"), K("left"), K("vibration-raw")>> \o ZoneTokens([i \in 0..9 |-> 1]))}

\* trigger TRIGGER MODE [PARAMS]: k parameters 11, 22, .. given after the mode
LinesTriggerMode ==
    {Line(<<K("trigger"), t, m>> \o [i \in 1..k |-> N(11 * i)]) :
        t \in TriggerNames, m \in {N(0), N(33), N(300), K("rumble")}, k \in 0..10}

LinesUnknown == {Line(<<K("rumble"), N(1)>>)}

\* power-off, battery and info take no argument and do not look at argc
LinesNoReport ==
    {Line(<<K(c)>>) : c \in {"power-off", "battery", "info"}}
    \cup {Line(<<K(c), N(1)>>) : c \in {"power-off", "battery", "info"}}

CommandLines ==
    LinesLightbar \cup LinesLedBrightness \cup LinesPlayerLeds \cup LinesMicrophone
    \cup LinesSpeaker \cup LinesVolume \cup LinesAttenuation \cup LinesTriggerPrefix
    \cup LinesTriggerOff \cup LinesTriggerFeedback \cup LinesTriggerWeapon \cup LinesTriggerBow
    \cup LinesTriggerGalloping \cup LinesTriggerMachine \cup LinesTriggerVibration
    \cup LinesTriggerFeedbackRaw \cup LinesTriggerVibrationRaw \cup LinesTriggerMode
    \cup LinesUnknown \cup LinesNoReport

(***************************************************************************)
(* Spec: one run of main() from line 1343.  pc: "start" (before            *)
(* dualsense_init), "ready" (session open, command not yet dispatched),    *)
(* "exit" (main has returned status).                                      *)
(***************************************************************************)
Init ==
    /\ pc = "start"
    /\ argv \in CommandLines
    /\ ds = ZeroSession
    /\ rp = NoReport
    /\ wire = NoFrame
    /\ nwrites = 0
    /\ nbuilt = 0
    /\ status = -1
    /\ stderr = ""
    /\ NoDeviceIo
    /\ MonitorOff

\* dualsense_destroy(&ds): hid_close(ds->dev), counted in nclosed.  Its only
\* call is line 1505, after the if/else chain of main; every branch of that
\* chain ends in a return statement, so no return of main passes through it.
dualsense_destroy(n) == n + 1

\* return <value of the command>; from main
Return(o) ==
    /\ ds' = o.ds
    /\ rp' = o.rp
    /\ wire' = o.wire
    /\ nwrites' = o.nwrites
    /\ nbuilt' = o.nbuilt
    /\ stderr' = o.stderr
    /\ status' = o.ret
    /\ pc' = "exit"
    /\ UNCHANGED <<argv, ioVars, monVars>>

\* lines 1343-1346
main_dualsense_init ==
    /\ pc = "start"
    /\ \E found \in InitOutcomes :
         LET o == dualsense_init(found)
         IN  /\ ds' = o.ds
             /\ stderr' = o.stderr
             /\ IF o.ret
                THEN pc' = "ready" /\ UNCHANGED status
                ELSE pc' = "exit" /\ status' = 1
    /\ UNCHANGED <<argv, rp, wire, nwrites, nbuilt, ioVars, monVars>>

\* return <value of a command that builds no report>; from main
ReturnNoReport(o) ==
    /\ stdout' = o.stdout
    /\ stderr' = o.stderr
    /\ status' = o.ret
    /\ pc' = "exit"
    /\ UNCHANGED <<argv, ds, rp, wire, nwrites, nbuilt, nclosed, monVars>>

\* lines 1348-1349
main_power_off ==
    /\ pc = "ready" /\ streq(Arg(1), "power-off")
    /\ \E outcome \in BtDisconnectOutcomes : ReturnNoReport(command_power_off(ds, outcome))
    /\ UNCHANGED <<inrep, nreads, nfeatures>>

\* lines 1350-1351
main_battery ==
    /\ pc = "ready" /\ streq(Arg(1), "battery")
    /\ \E rd \in InputReads :
         /\ inrep' = rd
         /\ ReturnNoReport(command_battery(ds, rd))
    /\ nreads' = nreads + 1
    /\ UNCHANGED nfeatures

\* lines 1352-1353
main_info ==
    /\ pc = "ready" /\ streq(Arg(1), "info")
    /\ \E rd \in FeatureReads :
         /\ inrep' = rd
         /\ ReturnNoReport(command_info(ds, rd))
    /\ nfeatures' = nfeatures + 1
    /\ UNCHANGED nreads

\* argv[k] converted to the uint8_t parameter of an encoder
U8Arg(k) == u8(atoi(Arg(k)))

main_lightbar ==
    /\ pc = "ready" /\ streq(Arg(1), "lightbar")
    /\ \E env \in Envs :
         Return(IF argc = 3
                THEN command_lightbar1(ds, Arg(2), env)
                ELSE IF argc = 5 \/ argc = 6
                THEN LET brightness == IF argc = 6 THEN U8Arg(5) ELSE 255
                     IN  command_lightbar3(ds, U8Arg(2), U8Arg(3), U8Arg(4), brightness, env)
                ELSE Fail(ds, "Invalid arguments", 2))

main_led_brightness ==
    /\ pc = "ready" /\ streq(Arg(1), "led-brightness")
    /\ \E env \in Envs :
         Return(IF argc # 3
                THEN Fail(ds, "Invalid arguments", 2)
                ELSE command_led_brightness(ds, U8Arg(2), env))

main_player_leds ==
    /\ pc = "ready" /\ streq(Arg(1), "player-leds")
    /\ \E env \in Envs :
         Return(IF argc = 3
                THEN command_player_leds(ds, U8Arg(2), FALSE, env)
                ELSE IF argc = 4
                THEN command_player_leds(ds, U8Arg(2), streq(Arg(3), "instant"), env)
                ELSE Fail(ds, "Invalid arguments", 2))

main_microphone ==
    /\ pc = "ready" /\ streq(Arg(1), "microphone")
    /\ \E env \in Envs :
         Return(IF argc # 3
                THEN Fail(ds, "Invalid arguments", 2)
                ELSE command_microphone(ds, Arg(2), env))

main_microphone_led ==
    /\ pc = "ready" /\ streq(Arg(1), "microphone-led")
    /\ \E env \in Envs :
         Return(IF argc # 3
                THEN Fail(ds, "Invalid arguments", 2)
                ELSE command_microphone_led(ds, Arg(2), env))

main_microphone_mode ==
    /\ pc = "ready" /\ streq(Arg(1), "microphone-mode")
    /\ \E env \in Envs :
         Return(IF argc # 3
                THEN Fail(ds, "Invalid arguments", 2)
                ELSE command_microphone_mode(ds, Arg(2), env))

main_speaker ==
    /\ pc = "ready" /\ streq(Arg(1), "speaker")
    /\ \E env \in Envs :
         Return(IF argc # 3
                THEN Fail(ds, "Invalid arguments", 2)
                ELSE command_speaker(ds, Arg(2), env))

main_volume ==
    /\ pc = "ready" /\ streq(Arg(1), "volume")
    /\ \E env \in Envs :
         Return(IF argc # 3
                THEN Fail(ds, "Invalid arguments", 2)
                ELSE IF atoi(Arg(2)) > 255
                THEN Fail(ds, "Invalid volume", 1)
                ELSE command_volume(ds, U8Arg(2), env))

main_attenuation ==
    /\ pc = "ready" /\ streq(Arg(1), "attenuation")
    /\ \E env \in Envs :
         Return(IF argc # 4
                THEN Fail(ds, "Invalid arguments", 2)
                ELSE IF atoi(Arg(2)) > 7 \/ atoi(Arg(3)) > 7
                THEN Fail(ds, "Invalid attenuation", 1)
                ELSE command_vibration_attenuation(ds, U8Arg(2), U8Arg(3), env))

\* lines 1426-1433 let the command line through
TriggerArgsOk ==
    /\ streq(Arg(1), "trigger")
    /\ argc >= 4
    /\ \E t \in {"left", "right", "both"} : streq(Arg(2), t)

\* lines 1426-1433 reject the command line
main_trigger_invalid ==
    /\ pc = "ready" /\ streq(Arg(1), "trigger") /\ ~TriggerArgsOk
    /\ Return(IF argc < 4
              THEN Fail(ds, "Invalid arguments", 2)
              ELSE Fail(ds, "Invalid argument: TRIGGER must be either \"left\", \"right\" or \"both\"", 2))

main_trigger_off ==
    /\ pc = "ready" /\ TriggerArgsOk /\ streq(Arg(3), "off")
    /\ \E env \in Envs : Return(command_trigger_off(ds, Arg(2), env))

main_trigger_feedback ==
    /\ pc = "ready" /\ TriggerArgsOk /\ streq(Arg(3), "feedback")
    /\ \E env \in Envs :
         Return(IF argc < 6
                THEN Fail(ds, "feedback mode need two parameters", 2)
                ELSE command_trigger_feedback(ds, Arg(2), U8Arg(4), U8Arg(5), env))

main_trigger_weapon ==
    /\ pc = "ready" /\ TriggerArgsOk /\ streq(Arg(3), "weapon")
    /\ \E env \in Envs :
         Return(IF argc < 7
                THEN Fail(ds, "weapons mode need three parameters", 2)
                ELSE command_trigger_weapon(ds, Arg(2), U8Arg(4), U8Arg(5), U8Arg(6), env))

main_trigger_bow ==
    /\ pc = "ready" /\ TriggerArgsOk /\ streq(Arg(3), "bow")
    /\ \E env \in Envs :
         Return(IF argc < 8
                THEN Fail(ds, "bow mode need four parameters", 2)
                ELSE command_trigger_bow(ds, Arg(2), U8Arg(4), U8Arg(5), U8Arg(6), U8Arg(7), env))

main_trigger_galloping ==
    /\ pc = "ready" /\ TriggerArgsOk /\ streq(Arg(3), "galloping")
    /\ \E env \in Envs :
         Return(IF argc < 9
                THEN Fail(ds, "galloping mode need five parameters", 2)
                ELSE command_trigger_galloping(ds, Arg(2), U8Arg(4), U8Arg(5), U8Arg(6),
                                               U8Arg(7), U8Arg(8), env))

main_trigger_machine ==
    /\ pc = "ready" /\ TriggerArgsOk /\ streq(Arg(3), "machine")
    /\ \E env \in Envs :
         Return(IF argc < 10
                THEN Fail(ds, "machine mode need six parameters", 2)
                ELSE command_trigger_machine(ds, Arg(2), U8Arg(4), U8Arg(5), U8Arg(6),
                                             U8Arg(7), U8Arg(8), U8Arg(9), env))

main_trigger_vibration ==
    /\ pc = "ready" /\ TriggerArgsOk /\ streq(Arg(3), "vibration")
    /\ \E env \in Envs :
         Return(IF argc < 7
                THEN Fail(ds, "vibration mode need three parameters", 2)
                ELSE command_trigger_vibration(ds, Arg(2), U8Arg(4), U8Arg(5), U8Arg(6), env))

\* uint8_t strengths[10] = { atoi(argv[4]), .. , atoi(argv[13]) }
Strengths == [i \in 0..9 |-> U8Arg(4 + i)]

main_trigger_feedback_raw ==
    /\ pc = "ready" /\ TriggerArgsOk /\ streq(Arg(3), "feedback-raw")
    /\ \E env \in Envs :
         Return(IF argc < 14
                THEN Fail(ds, "feedback-raw mode need ten parameters", 2)
                ELSE command_trigger_feedback_raw(ds, Arg(2), Strengths, env))

main_trigger_vibration_raw ==
    /\ pc = "ready" /\ TriggerArgsOk /\ streq(Arg(3), "vibration-raw")
    /\ \E env \in Envs :
         Return(IF argc < 15
                THEN Fail(ds, "vibration-raw mode need eleven parameters", 2)
                ELSE command_trigger_vibration_raw(ds, Arg(2), Strengths, U8Arg(14), env))

TriggerEffectNames ==
    {"off", "feedback", "weapon", "bow", "galloping", "machine", "vibration",
     "feedback-raw", "vibration-raw"}

\* lines 1488-1499: the mode and up to nine parameters as given
main_trigger_mode ==
    /\ pc = "ready" /\ TriggerArgsOk
    /\ ~ \E e \in TriggerEffectNames : streq(Arg(3), e)
    /\ \E env \in Envs :
         LET params == [k \in 1..9 |-> IF argc > 3 + k THEN U8Arg(3 + k) ELSE 0]
         IN  Return(command_trigger(ds, Arg(2), U8Arg(3), params, env))

CommandNames ==
    {"power-off", "battery", "info", "lightbar", "led-brightness", "player-leds",
     "microphone", "microphone-led", "microphone-mode", "speaker", "volume",
     "attenuation", "trigger"}

\* lines 1500-1503
main_invalid_command ==
    /\ pc = "ready"
    /\ ~ \E c \in CommandNames : streq(Arg(1), c)
    /\ Return(Fail(ds, "Invalid command", 2))

Next ==
    \/ main_dualsense_init
    \/ main_power_off
    \/ main_battery
    \/ main_info
    \/ main_lightbar
    \/ main_led_brightness
    \/ main_player_leds
    \/ main_microphone
    \/ main_microphone_led
    \/ main_microphone_mode
    \/ main_speaker
    \/ main_volume
    \/ main_attenuation
    \/ main_trigger_invalid
    \/ main_trigger_off
    \/ main_trigger_feedback
    \/ main_trigger_weapon
    \/ main_trigger_bow
    \/ main_trigger_galloping
    \/ main_trigger_machine
    \/ main_trigger_vibration
    \/ main_trigger_feedback_raw
    \/ main_trigger_vibration_raw
    \/ main_trigger_mode
    \/ main_invalid_command

Spec == Init /\ [][Next]_vars

(***************************************************************************)
(* SpecMonitor: dualsensectl monitor [-w] [add COMMAND] [remove COMMAND].  *)
(* mpc is the position of the monitor process: "start" (main, before the   *)
(* option loop), "enumerate" (the initial device list of command_monitor), *)
(* "poll" (blocked in poll), "enumerate-waitpid" and "poll-waitpid"        *)
(* (blocked in the waitpid of run_sh_command), "exit".  child is the       *)
(* process made by the first fork of run_sh_command: "none", "forked"      *)
(* (runnable at line 1067), "system" (blocked in system(command)),         *)
(* "zombie" (exited, not yet waited for).  commands is the set of shell    *)
(* commands that are running, each with the number of the fork that led    *)
(* to it and the process that called system(): the child or a grandchild.  *)
(***************************************************************************)
MaxEvents == 3

MonitorArgs ==
    { <<>>,
      <<K("-w")>>,
      <<K("add"), K("on-add")>>,
      <<K("-w"), K("add"), K("on-add")>>,
      <<K("add"), K("on-add"), K("-w")>>,
      <<K("remove"), K("on-remove")>>,
      <<K("-w"), K("remove"), K("on-remove")>>,
      <<K("add"), K("on-add"), K("remove"), K("on-remove")>>,
      <<K("-w"), K("add"), K("on-add"), K("remove"), K("on-remove")>>,
      <<K("add"), K("-w")>>,
      <<K("verbose"), K("add"), K("on-add")>>,
      <<K("add")>>,
      <<K("-w"), K("remove")>> }

MonitorLines == {Line(<<K("monitor")>> \o a) : a \in MonitorArgs}

NoOptions == [wait |-> FALSE, add |-> "NULL", remove |-> "NULL", help |-> FALSE]

\* lines 1304-1325: the loop over the arguments that follow "monitor"
RECURSIVE monitor_options(_, _)
monitor_options(args, o) ==
    IF args = <<>>
    THEN o
    ELSE IF streq(Head(args), "-w")
    THEN monitor_options(Tail(args), [o EXCEPT !.wait = TRUE])
    ELSE IF streq(Head(args), "add")
    THEN IF Len(args) < 2
         THEN [o EXCEPT !.help = TRUE]
         ELSE monitor_options(Tail(Tail(args)), [o EXCEPT !.add = args[2].val])
    ELSE IF streq(Head(args), "remove")
    THEN IF Len(args) < 2
         THEN [o EXCEPT !.help = TRUE]
         ELSE monitor_options(Tail(Tail(args)), [o EXCEPT !.remove = args[2].val])
    ELSE monitor_options(Tail(args), o)

\* add_device / remove_device: the command that is run for a udev action on
\* a device, "NULL" when none is
sh_command_for(action, matches) ==
    IF ~matches THEN "NULL"
    ELSE IF action = "add" THEN sh_command_add
    ELSE IF action = "remove" THEN sh_command_remove
    ELSE "NULL"

\* a child that always calls system() itself
run_sh_command_child_no_second_fork(wait, fork_ok, system_ok) ==
    IF system_ok
    THEN [child |-> "system", by |-> "child", stderr |-> ""]
    ELSE [child |-> "zombie", by |-> "none", stderr |-> "system"]

\* lines 1067-1080, the process for which the first fork returned 0: with
\* sh_command_wait it calls system() itself and exits when the command has
\* ended; without, it forks again, the grandchild calls system() and the
\* child exits at once
run_sh_command_child(wait, fork_ok, system_ok) ==
    IF wait
    THEN IF system_ok
         THEN [child |-> "system", by |-> "child", stderr |-> ""]
         ELSE [child |-> "zombie", by |-> "none", stderr |-> "system"]
    ELSE IF ~fork_ok
    THEN [child |-> "zombie", by |-> "none", stderr |-> "fork"]
    ELSE IF system_ok
    THEN [child |-> "zombie", by |-> "grandchild", stderr |-> ""]
    ELSE [child |-> "zombie", by |-> "none", stderr |-> "system"]

InitMonitor ==
    /\ pc = "monitor"
    /\ argv \in MonitorLines
    /\ ds = ZeroSession
    /\ rp = NoReport
    /\ wire = NoFrame
    /\ nwrites = 0
    /\ nbuilt = 0
    /\ status = -1
    /\ stderr = ""
    /\ NoDeviceIo
    /\ mpc = "start"
    /\ sh_command_wait = FALSE
    /\ sh_command_add = "NULL"
    /\ sh_command_remove = "NULL"
    /\ child = "none"
    /\ commands = {}
    /\ nevents = 0
    /\ nforked = 0
    /\ nreaped = 0

\* the variables monitor mode never touches
runVars == <<pc, argv, ds, rp, wire, nwrites, nbuilt, ioVars>>

\* lines 1301-1327
main_monitor ==
    /\ mpc = "start"
    /\ LET o == monitor_options(SubSeq(argv, 3, Len(argv)), NoOptions)
       IN  /\ sh_command_wait' = o.wait
           /\ sh_command_add' = o.add
           /\ sh_command_remove' = o.remove
           /\ IF o.help
              THEN mpc' = "exit" /\ status' = 1
              ELSE mpc' = "enumerate" /\ UNCHANGED status
    /\ UNCHANGED <<runVars, stderr, child, commands, nevents, nforked, nreaped>>

\* add_device / remove_device and the parent's side of run_sh_command up to
\* waitpid, for one device; at is "enumerate" or "poll"
HandleDevice(action, matches, fork_ok, at) ==
    /\ nevents' = nevents + 1
    /\ IF sh_command_for(action, matches) = "NULL"
       THEN mpc' = at /\ UNCHANGED <<child, nforked, stderr>>
       ELSE IF fork_ok
       THEN /\ child' = "forked"
            /\ nforked' = nforked + 1
            /\ mpc' = IF at = "poll" THEN "poll-waitpid" ELSE "enumerate-waitpid"
            /\ UNCHANGED stderr
       ELSE mpc' = at /\ stderr' = "fork" /\ UNCHANGED <<child, nforked>>
    /\ UNCHANGED <<runVars, status, sh_command_wait, sh_command_add, sh_command_remove,
                   commands, nreaped>>

\* lines 1178-1183: one entry of the initial device list
monitor_enumerate_device ==
    /\ mpc = "enumerate"
    /\ nevents < MaxEvents
    /\ \E matches \in BOOLEAN, fork_ok \in BOOLEAN :
         HandleDevice("add", matches, fork_ok, "enumerate")

\* lines 1184-1194: the list is exhausted, the udev monitor is set up
monitor_enumerate_end ==
    /\ mpc = "enumerate"
    /\ mpc' = "poll"
    /\ UNCHANGED <<runVars, status, stderr, sh_command_wait, sh_command_add,
                   sh_command_remove, child, commands, nevents, nforked, nreaped>>

\* lines 1196-1211: poll returned and a device was received
monitor_poll_device ==
    /\ mpc = "poll"
    /\ nevents < MaxEvents
    /\ \E action \in {"add", "remove", "change"}, matches \in BOOLEAN, fork_ok \in BOOLEAN :
         HandleDevice(action, matches, fork_ok, "poll")

\* lines 1197-1200 and 1213-1216: poll failed, the loop is left
monitor_poll_fails ==
    /\ mpc = "poll"
    /\ mpc' = "exit"
    /\ status' = 0
    /\ stderr' = "poll"
    /\ UNCHANGED <<runVars, sh_command_wait, sh_command_add, sh_command_remove,
                   child, commands, nevents, nforked, nreaped>>

\* the child process is scheduled and runs lines 1067-1080
child_runs ==
    /\ child = "forked"
    /\ \E fork_ok \in BOOLEAN, system_ok \in BOOLEAN :
         /\ child' = run_sh_command_child(sh_command_wait, fork_ok, system_ok).child
         /\ commands' =
               IF run_sh_command_child(sh_command_wait, fork_ok, system_ok).by = "none"
               THEN commands
               ELSE commands \cup
                    {[id |-> nforked,
                      by |-> run_sh_command_child(sh_command_wait, fork_ok, system_ok).by]}
         /\ stderr' =
               IF run_sh_command_child(sh_command_wait, fork_ok, system_ok).stderr = ""
               THEN stderr
               ELSE run_sh_command_child(sh_command_wait, fork_ok, system_ok).stderr
    /\ UNCHANGED <<runVars, status, mpc, sh_command_wait, sh_command_add, sh_command_remove,
                   nevents, nforked, nreaped>>

\* a shell command ends: system() returns in the process that called it,
\* which then executes exit(1), line 1075
command_terminates ==
    /\ \E c \in commands :
         /\ commands' = commands \ {c}
         /\ child' = IF c.by = "child" THEN "zombie" ELSE child
    /\ UNCHANGED <<runVars, status, stderr, mpc, sh_command_wait, sh_command_add,
                   sh_command_remove, nevents, nforked, nreaped>>

\* lines 1084-1086: waitpid(pid, &status, 0) returns for the exited child
waitpid_returns ==
    /\ mpc \in {"enumerate-waitpid", "poll-waitpid"}
    /\ child = "zombie"
    /\ child' = "none"
    /\ nreaped' = nreaped + 1
    /\ mpc' = IF mpc = "poll-waitpid" THEN "poll" ELSE "enumerate"
    /\ UNCHANGED <<runVars, status, stderr, sh_command_wait, sh_command_add,
                   sh_command_remove, commands, nevents, nforked>>

NextMonitor ==
    \/ main_monitor
    \/ monitor_enumerate_device
    \/ monitor_enumerate_end
    \/ monitor_poll_device
    \/ monitor_poll_fails
    \/ child_runs
    \/ command_terminates
    \/ waitpid_returns

\* the kernel runs a runnable child, and wakes the parent blocked in waitpid
\* once the child has exited; nothing makes a shell command end
SpecMonitor ==
    /\ InitMonitor
    /\ [][NextMonitor]_vars
    /\ WF_vars(child_runs)
    /\ WF_vars(waitpid_returns)

(***************************************************************************)
(* Properties of the builder and the transmitter (SpecCodec).              *)
(***************************************************************************)
\* the frame a Bluetooth session must get from the builder when its counter is seq
ExpectedBtFrame(seq) ==
    [i \in 0..77 |-> CASE i = 0 -> 49 [] i = 1 -> seq * 16 [] i = 2 -> 16 [] OTHER -> 0]

\* the frame a USB session must get from the builder
ExpectedUsbFrame == [i \in 0..62 |-> IF i = 0 THEN 2 ELSE 0]

\* C1: every step that builds a report leaves a fully framed, otherwise zeroed
\* frame: Bluetooth 78 bytes 0x31, (counter before the call) << 4, 0x10, zeros,
\* common block at byte 3; USB 63 bytes 0x02, zeros, common block at byte 1;
\* nothing of the previous contents of the buffer is in the frame.
C1_BuilderFramesAndZeroes ==
    [][ nbuilt' = nbuilt + 1 =>
          IF ds.bt
          THEN /\ rp'.len = 78 /\ rp'.bt /\ ~rp'.usb /\ rp'.common = 3
               /\ Frame(rp') = ExpectedBtFrame(ds.output_seq)
          ELSE /\ rp'.len = 63 /\ rp'.usb /\ ~rp'.bt /\ rp'.common = 1
               /\ Frame(rp') = ExpectedUsbFrame ]_vars

\* a Bluetooth frame just built while the counter was 5
C1_Witness ==
    /\ pc = "built" /\ ds.bt /\ nbuilt = 6
    /\ Frame(rp) = ExpectedBtFrame(5)

\* C2: the k-th Bluetooth frame built on a session (k from 0) carries k mod 16
\* in the upper nibble of byte 1 and 0 in the lower nibble.
C2_SequenceNibbleCycles ==
    (nbuilt >= 1 /\ rp.bt) =>
        /\ rp.data[1] \div 16 = (nbuilt - 1) % 16
        /\ rp.data[1] % 16 = 0

\* the 17th frame (k = 16) carries 0 again
C2_Witness == nbuilt = 17 /\ rp.bt /\ rp.data[1] = 0

\* C3: the counter stays in 0..15; once the session is initialised it changes
\* only in a step that builds a report, by +1 mod 16; it decreases only in the
\* wrap from 15 to 0.
C3_CounterRangeAndSteps ==
    [][ /\ ds.output_seq \in 0..15
        /\ ds'.output_seq \in 0..15
        /\ (pc # "start" /\ ds'.output_seq # ds.output_seq) =>
              /\ nbuilt' = nbuilt + 1
              /\ ds'.output_seq = (ds.output_seq + 1) % 16
        /\ (ds'.output_seq < ds.output_seq) =>
              (ds.output_seq = 15 /\ ds'.output_seq = 0) ]_vars

\* the counter has wrapped: sixteen frames built, counter back at 0
C3_Witness == ds.bt /\ nbuilt = 16 /\ ds.output_seq = 0

\* bit-by-bit reflected CRC32 (polynomial 0xEDB88320) of the bytes f[lo .. hi-1]
\* folded into crc, the reference the checksum of a frame is compared with
RefCrcByte(crc, b) ==
    LET x == Xor32(crc, <<b, 0, 0, 0>>)
        S(u) == IF u[1] % 2 = 1 THEN Xor32(Shr1(u), <<32, 131, 184, 237>>) ELSE Shr1(u)
    IN  S(S(S(S(S(S(S(S(x))))))))

RECURSIVE RefCrc(_, _, _, _)
RefCrc(crc, f, lo, hi) ==
    IF hi <= lo THEN crc
    ELSE IF hi = lo + 1 THEN RefCrcByte(crc, f[lo])
    ELSE LET mid == (lo + hi) \div 2
         IN  CHOOSE r \in { RefCrc(c, f, mid, hi) : c \in {RefCrc(crc, f, lo, mid)} } : TRUE

\* C4: the last 4 bytes of every Bluetooth frame handed to hid_write are, least
\* significant byte first, the inverse of the CRC32 that starts from 0xFFFFFFFF,
\* folds in the seed byte 0xA2 and then bytes 0..73 of that same frame (header
\* with the sequence nibble included).
C4_BluetoothChecksum ==
    (nwrites >= 1 /\ DOMAIN wire = 0..77) =>
        LET seeded == RefCrcByte(<<255, 255, 255, 255>>, 162)
            crc    == Not32(RefCrc(seeded, wire, 0, 74))
        IN  <<wire[74], wire[75], wire[76], wire[77]>> = crc

\* a signed Bluetooth frame with a non-zero sequence nibble and a field set
C4_Witness ==
    /\ nwrites >= 1 /\ DOMAIN wire = 0..77
    /\ wire[0] = 49 /\ wire[1] = 48 /\ wire[3] = 4
    /\ <<wire[74], wire[75], wire[76], wire[77]>> # <<0, 0, 0, 0>>

(***************************************************************************)
(* Properties of one run of main() (Spec).                                 *)
(***************************************************************************)
\* messages of the session and of the transport, not of argument validation
SessionMessages ==
    {"", "Error", "No device found", "Failed to open device",
     "Timeout waiting for report", "Failed to read report", "Unhandled report ID",
     "Invalid feature report", "Controller is not connected via BT",
     "Failed to connect to DBus daemon", "Failed to enumerate BT devices",
     "Failed to find BT device", "Failed to disconnect BT device"}

\* the run ended on a message of argument validation
Rejected == pc = "exit" /\ stderr \notin SessionMessages

\* the run handed a frame to hid_write
Transmitted == pc = "exit" /\ wire # NoFrame

\* offset of the common block in the frame of this session
CommonAt == IF ds.bt THEN bt_common ELSE usb_common

\* the byte of the common block at offset member, in the transmitted frame
Sent8(member) == wire[CommonAt + member]

\* command lines whose argument the encoder must refuse
UnknownKeyword ==
    /\ argc = 3
    /\ \/ streq(Arg(1), "lightbar") /\ ~streq(Arg(2), "on") /\ ~streq(Arg(2), "off")
       \/ streq(Arg(1), "microphone") /\ ~streq(Arg(2), "on") /\ ~streq(Arg(2), "off")
       \/ streq(Arg(1), "microphone-led")
            /\ ~ \E n \in {"on", "off", "pulse"} : streq(Arg(2), n)
       \/ streq(Arg(1), "microphone-mode")
            /\ ~ \E n \in {"chat", "asr", "both"} : streq(Arg(2), n)
       \/ streq(Arg(1), "speaker")
            /\ ~ \E n \in {"internal", "headphone", "monoheadphone", "both"} : streq(Arg(2), n)

OutOfRange ==
    \/ argc = 3 /\ streq(Arg(1), "volume") /\ atoi(Arg(2)) > 255
    \/ argc = 4 /\ streq(Arg(1), "attenuation") /\ (atoi(Arg(2)) > 7 \/ atoi(Arg(3)) > 7)
    \/ argc = 3 /\ streq(Arg(1), "led-brightness") /\ atoi(Arg(2)) \in 3..255
    \/ argc = 3 /\ streq(Arg(1), "player-leds") /\ atoi(Arg(2)) \in 8..255
    \/ /\ argc >= 14 /\ streq(Arg(1), "trigger") /\ streq(Arg(3), "feedback-raw")
       /\ \E t \in {"left", "right", "both"} : streq(Arg(2), t)
       /\ \E k \in 4..13 : atoi(Arg(k)) \in 9..255

\* C5: when argument validation fails (the run ends on a validation message,
\* and in particular for every unknown keyword and out-of-range number) the
\* exit status is non-zero and hid_write was not called: no frame reached the
\* device
C5_RejectedWritesNothing ==
    /\ Rejected => status # 0 /\ nwrites = 0 /\ wire = NoFrame
    /\ (pc = "exit" /\ ds.dev = "open" /\ (UnknownKeyword \/ OutOfRange))
          => Rejected /\ status # 0 /\ nwrites = 0 /\ wire = NoFrame

C5_Witness ==
    /\ pc = "exit" /\ ds.bt /\ argc = 3
    /\ streq(Arg(1), "lightbar") /\ streq(Arg(2), "blink")
    /\ stderr = "Invalid state" /\ status = 1 /\ nwrites = 0

\* C6: validation completes before the report is built: a run that ends on a
\* validation message has built no report and, on a Bluetooth session, has
\* left the rolling sequence counter at its initial value
C6_ValidateBeforeBuild ==
    Rejected => nbuilt = 0 /\ ds.output_seq = 0

\* valid-flag bit (offset of the flag byte, bit) of each value field
FlagOf ==
    [f \in {headphone_audio_volume, speaker_audio_volume, audio_flags, mute_button_led,
            power_save_control, reduce_motor_power, lightbar_setup, led_brightness,
            player_leds, lightbar_red, lightbar_green, lightbar_blue} |->
        CASE f = headphone_audio_volume -> <<valid_flag0, 4>>
          [] f = speaker_audio_volume   -> <<valid_flag0, 5>>
          [] f = audio_flags            -> <<valid_flag0, 7>>
          [] f = mute_button_led        -> <<valid_flag1, 0>>
          [] f = power_save_control     -> <<valid_flag1, 1>>
          [] f = reduce_motor_power     -> <<valid_flag1, 6>>
          [] f = lightbar_setup         -> <<valid_flag2, 1>>
          [] f = led_brightness         -> <<valid_flag2, 0>>
          [] f = player_leds            -> <<valid_flag1, 4>>
          [] OTHER                      -> <<valid_flag1, 2>>]

\* some byte of the 11-byte trigger block at offset mode_at was stored
TriggerBlockWritten(mode_at) == \E k \in 0..10 : Sent8(mode_at + k) # 0

\* C7: in a transmitted report every value field that was written (holds a
\* non-zero byte) has its valid-flag bit set, and a written left (right)
\* trigger block comes with the left (right) trigger-motor flag
C7_WrittenFieldsHaveValidFlag ==
    Transmitted =>
        /\ \A f \in DOMAIN FlagOf :
              Sent8(f) # 0 => BitAt(Sent8(FlagOf[f][1]), FlagOf[f][2]) = 1
        /\ TriggerBlockWritten(right_trigger_motor_mode) => BitAt(Sent8(valid_flag0), 2) = 1
        /\ TriggerBlockWritten(left_trigger_motor_mode) => BitAt(Sent8(valid_flag0), 3) = 1

\* the three valid-flag bytes the command of this run is asked to set
CommandFlags ==
    CASE streq(Arg(1), "lightbar") /\ argc = 3 -> <<0, 0, BIT(1)>>
      [] streq(Arg(1), "lightbar") /\ argc # 3 -> <<0, BIT(2), 0>>
      [] streq(Arg(1), "led-brightness")       -> <<0, 0, BIT(0)>>
      [] streq(Arg(1), "player-leds")          -> <<0, BIT(4), 0>>
      [] streq(Arg(1), "microphone")           -> <<0, BIT(1), 0>>
      [] streq(Arg(1), "microphone-led")       -> <<0, BIT(0), 0>>
      [] streq(Arg(1), "microphone-mode")      -> <<BIT(7), 0, 0>>
      [] streq(Arg(1), "speaker")              -> <<BIT(7), 0, 0>>
      [] streq(Arg(1), "volume")               -> <<BIT(4) + BIT(5), 0, 0>>
      [] streq(Arg(1), "attenuation")          -> <<0, BIT(6), 0>>
      [] streq(Arg(1), "trigger")              ->
            << (IF streq(Arg(2), "left") THEN 0 ELSE BIT(2))
               + (IF streq(Arg(2), "right") THEN 0 ELSE BIT(3)), 0, 0 >>
      [] OTHER                                 -> <<0, 0, 0>>

\* offsets in the common block of the value fields of the command of this run
\* (the trigger command owns the two trigger blocks)
CommandFields ==
    CASE streq(Arg(1), "lightbar") /\ argc = 3 -> {lightbar_setup}
      [] streq(Arg(1), "lightbar") /\ argc # 3 -> {lightbar_red, lightbar_green, lightbar_blue}
      [] streq(Arg(1), "led-brightness")       -> {led_brightness}
      [] streq(Arg(1), "player-leds")          -> {player_leds}
      [] streq(Arg(1), "microphone")           -> {power_save_control}
      [] streq(Arg(1), "microphone-led")       -> {mute_button_led}
      [] streq(Arg(1), "microphone-mode")      -> {audio_flags}
      [] streq(Arg(1), "speaker")              -> {audio_flags}
      [] streq(Arg(1), "volume")               -> {headphone_audio_volume, speaker_audio_volume}
      [] streq(Arg(1), "attenuation")          -> {reduce_motor_power}
      [] streq(Arg(1), "trigger")              ->
            right_trigger_motor_mode .. (left_trigger_motor_mode + 10)
      [] OTHER                                 -> {}

\* C8: in a transmitted report the three valid-flag bytes hold exactly the
\* bits of the invoked command, and every byte that is not the framing
\* header, a valid-flag byte, a value field of the command or the Bluetooth
\* checksum is zero
C8_OnlyCommandBytesSet ==
    Transmitted =>
        /\ DOMAIN wire = 0..((IF ds.bt THEN 78 ELSE 63) - 1)
        /\ IF ds.bt THEN wire[0] = 49 /\ wire[1] = 0 /\ wire[2] = 16 ELSE wire[0] = 2
        /\ <<Sent8(valid_flag0), Sent8(valid_flag1), Sent8(valid_flag2)>> = CommandFlags
        /\ \A i \in CommonAt .. ((IF ds.bt THEN 74 ELSE 63) - 1) :
              (i - CommonAt) \notin (CommandFields \cup {valid_flag0, valid_flag1, valid_flag2})
                 => wire[i] = 0

C8_Witness ==
    /\ Transmitted /\ ds.bt
    /\ streq(Arg(1), "volume") /\ atoi(Arg(2)) = 255
    /\ wire[3] = 48 /\ wire[7] = 127 /\ wire[8] = 100

\* the run is an accepted feedback-raw or vibration-raw command
RawZonesSent ==
    /\ Transmitted
    /\ streq(Arg(1), "trigger")
    /\ streq(Arg(3), "feedback-raw") \/ streq(Arg(3), "vibration-raw")

\* the strengths of the command line as the uint8_t array of main
GivenStrength(i) == atoi(Arg(4 + i)) % 256

\* param<k> of the trigger block whose parameters start at offset param_at
SentParam(param_at, k) == Sent8(param_at + k - 1)

\* the zone strength read back from the parameter bytes of a block
UnpackZone(param_at, i) ==
    LET mask  == SentParam(param_at, 1) + 256 * SentParam(param_at, 2)
        field == SentParam(param_at, 3) + 256 * SentParam(param_at, 4)
                 + 65536 * SentParam(param_at, 5) + 16777216 * SentParam(param_at, 6)
    IN  IF (mask \div (2 ^ i)) % 2 = 0
        THEN 0
        ELSE 1 + ((field \div (2 ^ (3 * i))) % 8)

\* C9: the parameter bytes of an accepted zone array determine the array:
\* zone i reads back as 0 when bit i of the mask is clear and as 1 + the
\* 3-bit group i of the strength field otherwise, and that is the strength
\* that was given
C9_PackingLossless ==
    RawZonesSent =>
        \A i \in 0..9 :
            /\ GivenStrength(i) \in 0..8
            /\ UnpackZone(left_trigger_param, i) = GivenStrength(i)
            /\ UnpackZone(right_trigger_param, i) = GivenStrength(i)

C9_Witness ==
    /\ RawZonesSent /\ streq(Arg(3), "feedback-raw")
    /\ GivenStrength(0) = 0 /\ GivenStrength(1) = 1 /\ GivenStrength(8) = 8
    /\ SentParam(left_trigger_param, 6) = 7

\* the mask and the strength field of the given array, as numbers
GivenMask ==
    LET m(i) == IF GivenStrength(i) > 0 THEN 2 ^ i ELSE 0
    IN  m(0) + m(1) + m(2) + m(3) + m(4) + m(5) + m(6) + m(7) + m(8) + m(9)

GivenField ==
    LET g(i) == IF GivenStrength(i) > 0 THEN (GivenStrength(i) - 1) * (2 ^ (3 * i)) ELSE 0
    IN  g(0) + g(1) + g(2) + g(3) + g(4) + g(5) + g(6) + g(7) + g(8) + g(9)

GivenFrequency == IF streq(Arg(3), "vibration-raw") THEN atoi(Arg(14)) % 256 ELSE 0

\* C10 as stated: the mask in param1/param2, the strength field in
\* param3/param4/param5 only, param6 = param7 = param8 = 0, the frequency
\* in param9
C10_StrengthInThreeBytes ==
    RawZonesSent =>
        \A p \in {left_trigger_param, right_trigger_param} :
            /\ SentParam(p, 1) = GivenMask % 256
            /\ SentParam(p, 2) = GivenMask \div 256
            /\ SentParam(p, 3) = GivenField % 256
            /\ SentParam(p, 4) = (GivenField \div 256) % 256
            /\ SentParam(p, 5) = (GivenField \div 65536) % 256
            /\ SentParam(p, 6) = 0
            /\ SentParam(p, 7) = 0
            /\ SentParam(p, 8) = 0
            /\ SentParam(p, 9) = GivenFrequency

\* C10 amended: the mask in param1/param2, the 30-bit strength field in
\* param3 .. param6 (param6 holds its bits 24..29, the groups of zones 8 and
\* 9), param7 = param8 = 0, the frequency (0 when none is given) in param9
C10_StrengthInFourBytes ==
    RawZonesSent =>
        \A p \in {left_trigger_param, right_trigger_param} :
            /\ SentParam(p, 1) = GivenMask % 256
            /\ SentParam(p, 2) = GivenMask \div 256
            /\ SentParam(p, 3) = GivenField % 256
            /\ SentParam(p, 4) = (GivenField \div 256) % 256
            /\ SentParam(p, 5) = (GivenField \div 65536) % 256
            /\ SentParam(p, 6) = GivenField \div 16777216
            /\ SentParam(p, 6) < 64
            /\ SentParam(p, 7) = 0
            /\ SentParam(p, 8) = 0
            /\ SentParam(p, 9) = GivenFrequency

C10_Witness ==
    /\ RawZonesSent /\ streq(Arg(3), "vibration-raw")
    /\ GivenStrength(9) = 8
    /\ SentParam(right_trigger_param, 6) = 56
    /\ SentParam(right_trigger_param, 9) = 40

(***************************************************************************)
(* Properties of the trigger effects (Spec).                               *)
(***************************************************************************)
\* the run dispatched the trigger effect named effect with at least n
\* parameters on an open session
TriggerRun(effect, n) ==
    /\ pc = "exit" /\ ds.dev = "open"
    /\ streq(Arg(1), "trigger") /\ argc >= 4 + n
    /\ \E t \in {"left", "right", "both"} : streq(Arg(2), t)
    /\ streq(Arg(3), effect)

\* the k-th parameter after the effect name, as the uint8_t the encoder gets
GivenParam(k) == atoi(Arg(3 + k)) % 256

\* offsets of the mode byte of the trigger blocks the selector names
SelectedBlocks ==
    (IF streq(Arg(2), "left") THEN {} ELSE {right_trigger_motor_mode})
    \cup (IF streq(Arg(2), "right") THEN {} ELSE {left_trigger_motor_mode})

\* param<k> of the trigger block whose mode byte is at offset m
BlockParam(m, k) == Sent8(m + k)

\* the 16-bit mask in param1/param2 and the field in param3..param6
BlockMask(m) == BlockParam(m, 1) + 256 * BlockParam(m, 2)

BlockLevels(m) ==
    BlockParam(m, 3) + 256 * BlockParam(m, 4) + 65536 * BlockParam(m, 5)
    + 16777216 * BlockParam(m, 6)

\* the run was refused: non-zero status, nothing written
Refused == pc = "exit" /\ status # 0 /\ nwrites = 0 /\ wire = NoFrame

\* the block at m holds zones position..9 active at level strength - 1 and
\* nothing for the zones below position
ZonesFrom(m, position, strength) ==
    \A i \in 0..15 :
        /\ (BlockMask(m) \div (2 ^ i)) % 2 = (IF i >= position /\ i <= 9 THEN 1 ELSE 0)
        /\ i <= 9 => (BlockLevels(m) \div (2 ^ (3 * i))) % 8
                        = (IF i >= position THEN strength - 1 ELSE 0)

\* C11: trigger feedback(position, strength) is sent exactly when position is
\* in 0..9 and strength in 1..8 and is refused otherwise; the report sent has
\* mode 0x21, exactly the zones position..9 in the mask, level strength - 1
\* in the group of every active zone and 0 in the groups below position
C11_FeedbackEncoding ==
    TriggerRun("feedback", 2) =>
        /\ Transmitted <=> (GivenParam(1) \in 0..9 /\ GivenParam(2) \in 1..8)
        /\ ~Transmitted => Refused
        /\ Transmitted =>
              \A m \in SelectedBlocks :
                  /\ Sent8(m) = 33
                  /\ ZonesFrom(m, GivenParam(1), GivenParam(2))
                  /\ BlockLevels(m) < 2 ^ 30
                  /\ BlockParam(m, 9) = 0

C11_Witness ==
    /\ TriggerRun("feedback", 2) /\ Transmitted /\ streq(Arg(2), "left")
    /\ GivenParam(1) = 9 /\ GivenParam(2) = 4
    /\ BlockMask(left_trigger_motor_mode) = 512
    /\ BlockLevels(left_trigger_motor_mode) = 3 * (2 ^ 27)

\* the block at m holds the mask bit(a) | bit(b), low byte in param1
StartStopZones(m, a, b) == BlockMask(m) = 2 ^ a + 2 ^ b

\* C12: trigger weapon(start, end, strength) is sent exactly when start is in
\* 2..7, end in start+1..8 and strength in 1..8 and is refused otherwise (so
\* for start = 1 and for end = start); the report sent has mode 0x25, the
\* mask bit(start) | bit(end) in param1/param2, strength - 1 in param3 and
\* zero in param4 .. param9 and in the tenth parameter byte
C12_WeaponEncoding ==
    TriggerRun("weapon", 3) =>
        /\ Transmitted <=> /\ GivenParam(1) \in 2..7
                           /\ GivenParam(2) \in (GivenParam(1) + 1)..8
                           /\ GivenParam(3) \in 1..8
        /\ ~Transmitted => Refused
        /\ Transmitted =>
              \A m \in SelectedBlocks :
                  /\ Sent8(m) = 37
                  /\ StartStopZones(m, GivenParam(1), GivenParam(2))
                  /\ BlockParam(m, 3) = GivenParam(3) - 1
                  /\ \A k \in 4..10 : BlockParam(m, k) = 0

C12_Witness ==
    /\ TriggerRun("weapon", 3) /\ Transmitted /\ streq(Arg(2), "both")
    /\ GivenParam(1) = 7 /\ GivenParam(2) = 8 /\ GivenParam(3) = 8
    /\ BlockParam(right_trigger_motor_mode, 1) = 128
    /\ BlockParam(right_trigger_motor_mode, 2) = 1
    /\ BlockParam(right_trigger_motor_mode, 3) = 7

\* the bow encoder, on an open USB session whose writes succeed, sends a
\* report for these positions (strength and snap force 1)
BowAccepts(start_position, end_position) ==
    command_trigger_bow([ZeroSession EXCEPT !.dev = "open"], K("left"),
                        start_position, end_position, 1, 1,
                        CHOOSE e \in Envs : e.write_ok).nwrites = 1

\* acceptance and encoding of a bow run, as the claim and its amendment
\* both state them
BowEncoding ==
    TriggerRun("bow", 4) =>
        /\ Transmitted <=> /\ GivenParam(1) \in 1..8
                           /\ GivenParam(2) \in (GivenParam(1) + 1)..8
                           /\ GivenParam(3) \in 1..8
                           /\ GivenParam(4) \in 1..8
        /\ ~Transmitted => Refused
        /\ Transmitted =>
              \A m \in SelectedBlocks :
                  /\ Sent8(m) = 34
                  /\ StartStopZones(m, GivenParam(1), GivenParam(2))
                  /\ BlockParam(m, 3) = (GivenParam(3) - 1) + 8 * (GivenParam(4) - 1)
                  /\ \A k \in 4..10 : BlockParam(m, k) = 0

\* C13 as stated: bow is sent exactly for start in 1..8, end in start+1..8,
\* strength and snap in 1..8, with force byte (strength-1) | ((snap-1) << 3)
\* and mask bit(start) | bit(end), and every start in 1..8 has an end for
\* which the command is accepted
C13_EveryStartHasAnEnd ==
    /\ BowEncoding
    /\ \A start_position \in 1..8 : \E end_position \in 0..255 :
          BowAccepts(start_position, end_position)

\* C13 amended: the same acceptance condition and encoding; start = 8 is
\* never accepted, whatever the end, and every start in 1..7 is accepted
\* with end = start + 1
C13_BowEncoding ==
    /\ BowEncoding
    /\ TriggerRun("bow", 4) =>
          /\ GivenParam(1) = 8 => Refused
          /\ \A end_position \in 0..255 : ~BowAccepts(8, end_position)
          /\ \A start_position \in 1..7 : BowAccepts(start_position, start_position + 1)

C13_Witness ==
    /\ TriggerRun("bow", 4) /\ Transmitted /\ streq(Arg(2), "right")
    /\ GivenParam(1) = 7 /\ GivenParam(2) = 8 /\ GivenParam(3) = 8 /\ GivenParam(4) = 8
    /\ BlockMask(right_trigger_motor_mode) = 384
    /\ BlockParam(right_trigger_motor_mode, 3) = 63

\* C14: trigger galloping(start, end, first, second, frequency) is sent
\* exactly when start is in 0..8, end in start+1..9, first in 0..6, second in
\* first+1..7 and frequency > 0 (a frequency above 8 included) and is refused
\* otherwise; the report sent has mode 0x23, the mask bit(start) | bit(end),
\* the ratio byte second | (first << 3), below 64, in param3 and the
\* frequency in param4
C14_GallopingEncoding ==
    TriggerRun("galloping", 5) =>
        /\ Transmitted <=> /\ GivenParam(1) \in 0..8
                           /\ GivenParam(2) \in (GivenParam(1) + 1)..9
                           /\ GivenParam(3) \in 0..6
                           /\ GivenParam(4) \in (GivenParam(3) + 1)..7
                           /\ GivenParam(5) > 0
        /\ ~Transmitted => Refused
        /\ Transmitted =>
              \A m \in SelectedBlocks :
                  /\ Sent8(m) = 35
                  /\ StartStopZones(m, GivenParam(1), GivenParam(2))
                  /\ BlockParam(m, 3) = GivenParam(4) + 8 * GivenParam(3)
                  /\ BlockParam(m, 3) < 64
                  /\ BlockParam(m, 4) = GivenParam(5)
                  /\ \A k \in 5..10 : BlockParam(m, k) = 0

C14_Witness ==
    /\ TriggerRun("galloping", 5) /\ Transmitted
    /\ GivenParam(1) = 8 /\ GivenParam(2) = 9 /\ GivenParam(3) = 6 /\ GivenParam(4) = 7
    /\ GivenParam(5) = 9
    /\ BlockParam(left_trigger_motor_mode, 2) = 3
    /\ BlockParam(left_trigger_motor_mode, 3) = 55
    /\ BlockParam(left_trigger_motor_mode, 4) = 9

\* C15: trigger vibration(position, amplitude, frequency) is sent exactly
\* when position is in 0..9, amplitude in 1..8 and frequency > 0 and is
\* refused otherwise; the report sent has mode 0x26, the zones position..9
\* active at level amplitude - 1 and the frequency in param9; trigger off is
\* always sent, with mode 0x05 and every parameter byte zero
C15_VibrationAndOff ==
    /\ TriggerRun("vibration", 3) =>
          /\ Transmitted <=> /\ GivenParam(1) \in 0..9
                             /\ GivenParam(2) \in 1..8
                             /\ GivenParam(3) > 0
          /\ ~Transmitted => Refused
          /\ Transmitted =>
                \A m \in SelectedBlocks :
                    /\ Sent8(m) = 38
                    /\ ZonesFrom(m, GivenParam(1), GivenParam(2))
                    /\ BlockParam(m, 7) = 0 /\ BlockParam(m, 8) = 0
                    /\ BlockParam(m, 9) = GivenParam(3)
                    /\ BlockParam(m, 10) = 0
    /\ TriggerRun("off", 0) =>
          /\ Transmitted
          /\ \A m \in SelectedBlocks :
                /\ Sent8(m) = 5
                /\ \A k \in 1..10 : BlockParam(m, k) = 0

C15_Witness ==
    /\ TriggerRun("vibration", 3) /\ Transmitted /\ streq(Arg(2), "both")
    /\ GivenParam(1) = 5 /\ GivenParam(2) = 8 /\ GivenParam(3) = 255
    /\ BlockMask(left_trigger_motor_mode) = 992
    /\ BlockParam(left_trigger_motor_mode, 9) = 255

\* the run sent a report of the trigger command
TriggerSent == Transmitted /\ streq(Arg(1), "trigger")

\* the run is trigger TRIGGER MODE [PARAMS] with a numeric mode
TriggerModeRun == TriggerSent /\ ~ \E e \in TriggerEffectNames : streq(Arg(3), e)

\* C16: in every report of the trigger command valid_flag0 holds bit 2 iff
\* the selector is right or both and bit 3 iff it is left or both, and no
\* other bit; the right and the left trigger block are equal byte for byte
\* and their tenth parameter byte is 0, whatever the selector; with a numeric
\* mode the blocks hold that mode and the parameters given, 0 for those
\* that are not given
C16_TriggerBlocksMirrored ==
    /\ TriggerSent =>
          /\ Sent8(valid_flag0)
                = (IF streq(Arg(2), "right") \/ streq(Arg(2), "both") THEN 4 ELSE 0)
                  + (IF streq(Arg(2), "left") \/ streq(Arg(2), "both") THEN 8 ELSE 0)
          /\ \A k \in 0..10 :
                Sent8(right_trigger_motor_mode + k) = Sent8(left_trigger_motor_mode + k)
          /\ BlockParam(right_trigger_motor_mode, 10) = 0
          /\ BlockParam(left_trigger_motor_mode, 10) = 0
    /\ TriggerModeRun =>
          /\ Sent8(left_trigger_motor_mode) = atoi(Arg(3)) % 256
          /\ \A k \in 1..9 :
                BlockParam(left_trigger_motor_mode, k)
                   = (IF argc > 3 + k THEN GivenParam(k) ELSE 0)

C16_Witness ==
    /\ TriggerModeRun /\ streq(Arg(2), "left") /\ argc = 13
    /\ Sent8(valid_flag0) = 8
    /\ Sent8(right_trigger_motor_mode) = 33
    /\ BlockParam(right_trigger_motor_mode, 9) = 99
    /\ BlockParam(left_trigger_motor_mode, 9) = 99

(***************************************************************************)
(* Properties of the volume, lightbar and player-leds commands (Spec).     *)
(***************************************************************************)
\* the run dispatched the command named c with argc = n on an open session
CommandRun(c, n) == pc = "exit" /\ ds.dev = "open" /\ streq(Arg(1), c) /\ argc = n

\* C17: for every volume v in 0..255 the report is sent with the headphone
\* and the speaker volume flag set, headphone byte floor(v * 0x7f / 255) and
\* speaker byte floor(v * 0x64 / 255): at most 0x7f and 0x64, not below the
\* bytes of v - 1, 0x7f and 0x64 for v = 255, 0 and 0 for v = 0
C17_VolumeScaling ==
    (CommandRun("volume", 3) /\ atoi(Arg(2)) \in 0..255) =>
        LET v == atoi(Arg(2))
        IN  /\ Transmitted
            /\ BitAt(Sent8(valid_flag0), 4) = 1 /\ BitAt(Sent8(valid_flag0), 5) = 1
            /\ Sent8(headphone_audio_volume) = (v * 127) \div 255
            /\ Sent8(speaker_audio_volume) = (v * 100) \div 255
            /\ Sent8(headphone_audio_volume) <= 127
            /\ Sent8(speaker_audio_volume) <= 100
            /\ v > 0 => /\ Sent8(headphone_audio_volume) >= ((v - 1) * 127) \div 255
                        /\ Sent8(speaker_audio_volume) >= ((v - 1) * 100) \div 255
            /\ v = 255 => Sent8(headphone_audio_volume) = 127 /\ Sent8(speaker_audio_volume) = 100
            /\ v = 0 => Sent8(headphone_audio_volume) = 0 /\ Sent8(speaker_audio_volume) = 0

C17_Witness ==
    /\ CommandRun("volume", 3) /\ Transmitted /\ atoi(Arg(2)) = 200
    /\ Sent8(headphone_audio_volume) = 99
    /\ Sent8(speaker_audio_volume) = 78

\* the run dispatched lightbar RED GREEN BLUE [BRIGHTNESS]
LightbarRun == CommandRun("lightbar", 5) \/ CommandRun("lightbar", 6)

\* the BRIGHTNESS argument as given, 255 when it is left out
GivenBrightness == IF argc = 6 THEN atoi(Arg(5)) ELSE 255

\* every channel and the brightness of the command line are in 0..255
LightbarInRange ==
    /\ \A k \in 2..4 : atoi(Arg(k)) \in 0..255
    /\ GivenBrightness \in 0..255

\* the byte written for a channel is the truncated quotient, bounded by both factors
ScaledChannel(member, channel, brightness) ==
    /\ Sent8(member) = (brightness * channel) \div 255
    /\ Sent8(member) <= channel
    /\ Sent8(member) <= brightness
    /\ brightness = 255 => Sent8(member) = channel
    /\ brightness = 0 => Sent8(member) = 0

\* C18: for r, g, b and brightness in 0..255 the lightbar report carries
\* floor(brightness * channel / 255) in each channel byte, the product not
\* being narrowed to 8 bits: never above the channel nor the brightness, the
\* channel itself at brightness 255, 0 at brightness 0, and 128, 64, 0 for
\* lightbar 255 128 0 128
C18_LightbarScaling ==
    (LightbarRun /\ LightbarInRange) =>
        /\ Transmitted
        /\ BitAt(Sent8(valid_flag1), 2) = 1
        /\ ScaledChannel(lightbar_red, atoi(Arg(2)), GivenBrightness)
        /\ ScaledChannel(lightbar_green, atoi(Arg(3)), GivenBrightness)
        /\ ScaledChannel(lightbar_blue, atoi(Arg(4)), GivenBrightness)
        /\ (atoi(Arg(2)) = 255 /\ atoi(Arg(3)) = 128 /\ atoi(Arg(4)) = 0 /\ GivenBrightness = 128)
             => /\ Sent8(lightbar_red) = 128
                /\ Sent8(lightbar_green) = 64
                /\ Sent8(lightbar_blue) = 0

C18_Witness ==
    /\ CommandRun("lightbar", 6) /\ Transmitted
    /\ atoi(Arg(2)) = 255 /\ atoi(Arg(3)) = 128 /\ atoi(Arg(4)) = 0 /\ atoi(Arg(5)) = 128
    /\ Sent8(lightbar_red) = 128 /\ Sent8(lightbar_green) = 64 /\ Sent8(lightbar_blue) = 0

\* C19: a lightbar command line whose colour channel or brightness is an
\* integer outside 0..255 fails with an error status and sends no report,
\* instead of sending the argument reduced modulo 256
C19_LightbarRangeValidated ==
    (LightbarRun /\ ~LightbarInRange) => Refused

\* lightbar 256 0 0 is sent as red 0, lightbar -1 0 0 as red 255
C19_OutOfRangeSent ==
    /\ CommandRun("lightbar", 5) /\ Transmitted /\ status = 0
    /\ atoi(Arg(2)) = -1 /\ atoi(Arg(3)) = 0 /\ atoi(Arg(4)) = 0
    /\ Sent8(lightbar_red) = 255

\* the run dispatched player-leds NUMBER [instant]
PlayerLedsRun == CommandRun("player-leds", 3) \/ CommandRun("player-leds", 4)

\* the number and the instant flag that reach the encoder
GivenNumber == atoi(Arg(2)) % 256

GivenInstant == IF argc = 4 /\ streq(Arg(3), "instant") THEN 1 ELSE 0

\* the LED patterns of players 0..7, indexed from 1
PlayerPatterns == <<0, 4, 10, 21, 27, 31, 17, 14>>

CommandDone(c) == pc = "exit" /\ ds.dev = "open" /\ streq(Arg(1), c)

\* (transport, report id, byte count) is (USB, 0x01, 64) or (Bluetooth, 0x31, 78)
KnownFraming ==
    /\ inrep.res > 0
    /\ \/ ~ds.bt /\ inrep.data[0] = 1 /\ inrep.res = 64
       \/ ds.bt /\ inrep.data[0] = 49 /\ inrep.res = 78

\* the status byte of the input report that was read: byte 52 of a body that
\* starts at offset 1 (USB) or 2 (Bluetooth)
StatusByte == inrep.data[(IF ds.bt THEN 2 ELSE 1) + 52]

\* percentage and word for a capacity nibble and a charging code
BatteryText(nibble, code) ==
    CASE code = 0 -> <<IF nibble * 10 + 5 > 100 THEN 100 ELSE nibble * 10 + 5, "discharging">>
      [] code = 1 -> <<IF nibble * 10 + 5 > 100 THEN 100 ELSE nibble * 10 + 5, "charging">>
      [] code = 2 -> <<100, "full">>
      [] code = 10 \/ code = 11 -> <<0, "not-charging">>
      [] OTHER -> <<0, "unknown">>

\* C21: for each of the 256 status bytes, nibble = low 4 bits and code = next
\* 4 bits, battery prints min(nibble * 10 + 5, 100) with "discharging" (code 0)
\* or "charging" (code 1), 100 "full" (code 2), 0 "not-charging" (code 0xA,
\* 0xB), 0 "unknown" (any other code); the percentage is always in 0..100
C21_BatteryDecode ==
    (CommandDone("battery") /\ KnownFraming) =>
        /\ status = 0
        /\ stdout = <<BatteryText(StatusByte % 16, StatusByte \div 16)>>
        /\ stdout[1][1] \in 0..100

C21_Witness ==
    /\ CommandDone("battery") /\ KnownFraming
    /\ StatusByte = 28
    /\ stdout = << <<100, "charging">> >>

\* C22: battery decodes a read only when (transport, report id, byte count)
\* is (USB, 0x01, 64) or (Bluetooth, 0x31, 78), taking the body at offset 1
\* and 2; any other report that was read prints nothing to standard output
\* and ends with "Unhandled report ID" and status 3
C22_BatteryFraming ==
    (CommandDone("battery") /\ inrep.res > 0) =>
        IF KnownFraming
        THEN /\ status = 0
             /\ stdout = <<BatteryText(StatusByte % 16, StatusByte \div 16)>>
        ELSE /\ status = 3
             /\ stdout = <<>>
             /\ stderr = "Unhandled report ID"

C22_Witness ==
    /\ CommandDone("battery") /\ ds.bt
    /\ inrep.data[0] = 1 /\ inrep.res = 64
    /\ status = 3 /\ stdout = <<>>

(***************************************************************************)
(* Properties of the exit of main (Spec).                                  *)
(***************************************************************************)
\* the battery read returned 0 / a negative value
ReadTimedOut == CommandDone("battery") /\ inrep.res = 0

ReadFailed == CommandDone("battery") /\ inrep.res < 0

\* no device matched the enumeration
DeviceNotFound == pc = "exit" /\ stderr = "No device found"

\* the exit codes of a failed read and of a missing device
ReadFailedStatus == command_battery(ZeroSession, [res |-> -1, data |-> InputData(0, 0, 0)]).ret

DeviceNotFoundStatus == 1

\* C23: the error classes have pairwise different exit codes: a battery read
\* that times out does not end with the exit code of a read that fails in
\* the transport, and a rejected argument does not end with the exit code
\* of a device that cannot be found
C23_DistinctExitCodes ==
    /\ ReadTimedOut => status # ReadFailedStatus
    /\ Rejected => status # DeviceNotFoundStatus

\* the exit codes the classes do have
C23_ExitCodes ==
    /\ ReadTimedOut => status = 2
    /\ ReadFailed => status = 2
    /\ DeviceNotFound => status = DeviceNotFoundStatus
    /\ Rejected => status \in {1, 2}
    /\ (CommandDone("battery") /\ inrep.res > 0 /\ ~KnownFraming) => status = 3

\* C24: a session whose handle dualsense_init opened has had the handle
\* closed exactly once when the process exits, on every command path
C24_HandleReleased ==
    (pc = "exit" /\ ds.dev = "open") => nclosed = dualsense_destroy(0)

\* the calls of hid_write, hid_read_timeout and hid_get_feature_report made
\* on the session's handle
DeviceCalls == nwrites + nreads + nfeatures

\* C25: one run of main makes at most one call of hid_write,
\* hid_read_timeout or hid_get_feature_report on the handle, whatever the
\* command and its arguments, and a call that failed is not repeated
C25_AtMostOneDeviceCall ==
    /\ DeviceCalls <= 1
    /\ (pc = "exit" /\ stderr = "Error") => DeviceCalls = 1
    /\ (ReadTimedOut \/ ReadFailed) => DeviceCalls = 1
    /\ (CommandDone("info") /\ inrep.res # 64) => DeviceCalls = 1
    /\ (pc = "exit" /\ ds.dev # "open") => DeviceCalls = 0

C25_Witness ==
    /\ pc = "exit" /\ stderr = "Error" /\ streq(Arg(1), "trigger")
    /\ nwrites = 1 /\ nreads = 0 /\ nfeatures = 0

(***************************************************************************)
(* Properties of a failed write (Spec).                                    *)
(***************************************************************************)
\* the encoder called dualsense_send_output_report and hid_write failed
WriteFailed == pc = "exit" /\ nwrites = 1 /\ stderr = "Error"

ChecksumSlot == 74..77

\* C28: dualsense_send_output_report changes nothing but the checksum slot:
\* in a Bluetooth report only the last 4 bytes can differ after the call, a
\* USB report is unchanged, the session (its sequence counter) is unchanged,
\* and the bytes handed to the transport are the frame of the length chosen
\* when the report was built, 78 for Bluetooth and 63 for USB
C28_SendChangesOnlyChecksum ==
    [][ nwrites' = nwrites + 1 =>
          /\ \A i \in DOMAIN rp.data :
                (rp.bt /\ i \in ChecksumSlot) \/ rp'.data[i] = rp.data[i]
          /\ DOMAIN rp'.data = DOMAIN rp.data
          /\ ~rp.bt => rp' = rp
          /\ rp'.len = rp.len /\ rp'.bt = rp.bt /\ rp'.usb = rp.usb /\ rp'.common = rp.common
          /\ ds' = ds
          /\ rp.len = (IF ds.bt THEN 78 ELSE 63)
          /\ DOMAIN wire' = 0..(rp.len - 1)
          /\ wire' = Frame(rp') ]_vars

C28_Witness ==
    /\ pc = "ready" /\ nwrites = 3 /\ ds.bt /\ ds.output_seq = 3
    /\ wire = Frame(rp)
    /\ \E i \in ChecksumSlot : wire[i] # 0
    /\ wire[1] = 32

(***************************************************************************)
(* Properties of the audio routing commands (Spec).                        *)
(***************************************************************************)
\* the output path (bits 4-5) and the input path (bits 6-7) of audio_flags
OutputPath(flags) == (flags \div 16) % 4

InputPath(flags) == flags \div 64

\* the path code of a state keyword
SpeakerCode ==
    CASE streq(Arg(2), "internal") -> 3
      [] streq(Arg(2), "monoheadphone") -> 1
      [] streq(Arg(2), "both") -> 2
      [] OTHER -> 0

MicrophoneModeCode ==
    CASE streq(Arg(2), "chat") -> 1
      [] streq(Arg(2), "asr") -> 2
      [] OTHER -> 0

\* C29: a speaker report and a microphone-mode report set the same valid
\* flag (audio control) and each carries a whole audio_flags byte: a speaker
\* report has the output path of its keyword and input path 0, a
\* microphone-mode report has the input path of its keyword and output
\* path 0, so the path the command does not name is sent as code 0
C29_AudioFlagsOverwritten ==
    /\ (CommandRun("speaker", 3) /\ Transmitted) =>
          /\ Sent8(valid_flag0) = 128
          /\ Sent8(audio_flags) = 16 * SpeakerCode
          /\ OutputPath(Sent8(audio_flags)) = SpeakerCode
          /\ InputPath(Sent8(audio_flags)) = 0
    /\ (CommandRun("microphone-mode", 3) /\ Transmitted) =>
          /\ Sent8(valid_flag0) = 128
          /\ Sent8(audio_flags) = 64 * MicrophoneModeCode
          /\ InputPath(Sent8(audio_flags)) = MicrophoneModeCode
          /\ OutputPath(Sent8(audio_flags)) = 0

C29_Witness ==
    /\ CommandRun("microphone-mode", 3) /\ Transmitted /\ streq(Arg(2), "asr")
    /\ Sent8(valid_flag0) = 128
    /\ Sent8(audio_flags) = 128

(***************************************************************************)
(* Properties of the info command (Spec).                                  *)
(***************************************************************************)
\* C30: when the firmware-info feature report cannot be read or has a length
\* other than 64, info prints "Invalid feature report" on stderr and no
\* firmware field, and ends with status 0, the status of an info command
\* that printed the six firmware lines
C30_InfoFailureStatusZero ==
    CommandDone("info") =>
        /\ nfeatures = 1
        /\ status = 0
        /\ IF inrep.res # 64
           THEN stderr = "Invalid feature report" /\ stdout = <<>>
           ELSE stderr = "" /\ Len(stdout) = 6 /\ stdout[1] = <<"Hardware", inrep.data.hardware_info>>

C30_Witness ==
    /\ CommandDone("info") /\ inrep.res = 63
    /\ stderr = "Invalid feature report" /\ stdout = <<>> /\ status = 0

(***************************************************************************)
(* Properties of monitor mode (SpecMonitor).                               *)
(***************************************************************************)
\* the monitor is about to take the next device
AtNextEvent == mpc \in {"enumerate", "poll"}

\* the monitor is blocked in the waitpid of run_sh_command
InWaitpid == mpc \in {"enumerate-waitpid", "poll-waitpid"}

\* C27: with the wait flag set the monitor takes the next event only when
\* the shell command it spawned has terminated; with the flag clear it waits
\* only for the intermediate child, which never waits for the command, so
\* the monitor returns to its events although no command ever terminates;
\* the intermediate child is reaped every time
C27_MonitorWaitsAsConfigured ==
    /\ [](sh_command_wait /\ AtNextEvent => commands = {})
    /\ [](~sh_command_wait /\ InWaitpid => child \in {"forked", "zombie"})
    /\ [](\A c \in commands : c.by = (IF sh_command_wait THEN "child" ELSE "grandchild"))
    /\ ((~sh_command_wait /\ InWaitpid) ~> AtNextEvent)
    /\ [](mpc \in {"enumerate", "poll", "exit"} => child = "none" /\ nreaped = nforked)
    /\ [](nforked - nreaped \in {0, 1})

\* two commands of earlier events are still running while the monitor, wait
\* flag clear, is back in poll with both intermediate children reaped
C27_Witness ==
    /\ ~sh_command_wait /\ mpc = "poll"
    /\ Cardinality(commands) = 2
    /\ nforked = 2 /\ nreaped = 2 /\ child = "none"

====
